---- MODULE Spec2Model ----
(***************************************************************************)
(* Multi-tenant Instagram webhook dispatcher (AlisonBianchin/testeapi).    *)
(*                                                                         *)
(* The persistent state is the four tables of models.py (clients,          *)
(* api_keys, messages, webhooks).  Two levels of operation are modelled:   *)
(*   - SpecManager: the methods of ClientManager (client_manager.py)       *)
(*     called one after another on one session;                            *)
(*   - Spec: the Flask routes of app.py handled as concurrent requests,    *)
(*     each with its own SQLAlchemy session, stepping through              *)
(*     webhook_receive / process_entry / the handlers of handlers.py.      *)
(***************************************************************************)
EXTENDS Integers, Sequences, FiniteSets, TLC

VARIABLES
    clients,    \* table clients: id -> row (DOMAIN = the ids that exist)
    api_keys,   \* table api_keys: id -> row
    messages,   \* table messages: the set of its rows
    webhooks,   \* table webhooks: id -> row
    today,      \* the UTC calendar day of datetime.utcnow()
    calls,      \* the calls the Graph API has received
    issued,     \* how many verify tokens secrets.token_urlsafe has produced
    puts,       \* how many PUT /api/clients/<id> requests have been served
    reqs,       \* the HTTP requests: slot -> position and locals
    last        \* the last ClientManager call made directly, and what it returned

vars == <<clients, api_keys, messages, webhooks, today, calls, issued, puts, reqs, last>>

----------------------------------------------------------------------------
(* Bounds of the model *)

MaxClients == 2     \* clients registered in one behaviour
MaxDay == 2         \* last day the clock reaches
MaxReq == 1         \* HTTP requests in one behaviour (they may all overlap)
MaxSub == 2         \* sub-events in one webhook payload
MaxPuts == 1        \* PUT /api/clients/<id> requests in one behaviour
MaxRacing == 3      \* webhook deliveries of SpecRace, which may all overlap
MaxCount == 2       \* highest value of messages_sent_today

None == "None"     \* Python's None, where no row is meant
NoClient == 0       \* "no row": what .first() gives when nothing matches (None)

Max(S) == CHOOSE x \in S : \A y \in S : y <= x

\* id given to a new row by the database: one past the highest id in the table.
NextId(table) == IF DOMAIN table = {} THEN 1 ELSE Max(DOMAIN table) + 1

\* The table after db.add(row); db.commit().
Inserted(table, row) ==
    [i \in DOMAIN table \cup {NextId(table)} |->
        IF i \in DOMAIN table THEN table[i] ELSE row]

----------------------------------------------------------------------------
(* Inputs *)

Emails == {"a@x.com", "b@x.com"}
Tokens == 1..MaxClients         \* the verify tokens, as opaque values
Limits == {0, 1}                \* daily_limit given at registration

\* keywords and custom_responses of the two accounts: the first has one of each,
\* the second passes none (`keywords or []`, `custom_responses or {}`).
KeywordsOf(e) == IF e = "a@x.com" THEN <<<<"p", "r", "e", "ç", "o">>>> ELSE <<>>
CustomResponsesOf(e) == IF e = "a@x.com" THEN <<<<<<"p", "r", "o", "m", "o">>, "X">>>> ELSE <<>>

\* Arguments of create_client.
Profiles ==
    { [email |-> e, access_token |-> "tok_" \o e, instagram_account_id |-> "ig_" \o e,
       keywords |-> KeywordsOf(e), custom_responses |-> CustomResponsesOf(e),
       daily_limit |-> l] :
      e \in Emails, l \in Limits }

\* Keyword arguments of update_client.  "nickname" is no attribute of Client.
Patches ==
    {[active |-> b] : b \in BOOLEAN} \cup
    {[auto_reply_enabled |-> b] : b \in BOOLEAN} \cup
    {[verify_token |-> t] : t \in Tokens} \cup
    {[email |-> e] : e \in Emails} \cup
    {[daily_message_limit |-> l] : l \in Limits} \cup
    {[nickname |-> "x"]}

ClientIds == 1..(MaxClients + 1)    \* ids a caller may name, one of them never issued

\* secrets.token_urlsafe(32): 256 random bits, taken never to repeat; the n-th
\* token produced is the value n.
token_urlsafe(n) == n

----------------------------------------------------------------------------
(* models.py *)

\* Client(...) as create_client builds it, with the column defaults.
Client(p, verify_token, now) ==
    [email |-> p.email,
     access_token |-> p.access_token,
     instagram_account_id |-> p.instagram_account_id,
     verify_token |-> verify_token,
     keywords |-> p.keywords,
     auto_reply_enabled |-> TRUE,
     custom_responses |-> p.custom_responses,
     active |-> TRUE,
     updated_at |-> now,
     daily_message_limit |-> p.daily_limit,
     messages_sent_today |-> 0,
     last_reset_date |-> now]

\* The columns of Client: hasattr(client, key) for the keys the model passes.
ClientColumns ==
    {"email", "access_token", "instagram_account_id", "verify_token", "keywords",
     "auto_reply_enabled", "custom_responses", "active", "updated_at",
     "daily_message_limit", "messages_sent_today", "last_reset_date"}

\* unique=True on Client.email: the table t violates it.
EmailClash(t) == \E i, j \in DOMAIN t : i # j /\ t[i].email = t[j].email

----------------------------------------------------------------------------
(* client_manager.py: the queries *)

get_client(t, client_id) == IF client_id \in DOMAIN t THEN client_id ELSE NoClient

\* .first() of a query with no ORDER BY: any of the matching rows, or None.
\* (SQLite returns the matching row of lowest id; PostgreSQL whichever it meets
\* first in the heap.)
First(matches) == IF matches = {} THEN {NoClient} ELSE matches

get_client_by_email(t, email) == First({c \in DOMAIN t : t[c].email = email})

get_client_by_verify_token(t, verify_token) ==
    First({c \in DOMAIN t : t[c].verify_token = verify_token})

----------------------------------------------------------------------------
(* client_manager.py: the quota tracker, on one loaded row *)

\* last_reset != today
IsNewDay(row, now) == row.last_reset_date # now

\* (variant: the reset that forgets to stamp last_reset_date)
ResetCounter_keepsDate(row, now) == [row EXCEPT !.messages_sent_today = 0]

\* client.messages_sent_today = 0; client.last_reset_date = utcnow()
ResetCounter(row, now) ==
    [row EXCEPT !.messages_sent_today = 0, !.last_reset_date = now]

\* the row check_rate_limit leaves
RowAfterCheck(row, now) == IF IsNewDay(row, now) THEN ResetCounter(row, now) ELSE row

\* (variant: <= for <)
UnderLimit_orEqual(row) == row.messages_sent_today <= row.daily_message_limit

\* return client.messages_sent_today < client.daily_message_limit
UnderLimit(row) == row.messages_sent_today < row.daily_message_limit

\* (variant: the increment that also restarts the day)
Incremented_andStamped(row) ==
    [row EXCEPT !.messages_sent_today = @ + 1, !.last_reset_date = @ + 1]

\* client.messages_sent_today += 1
Incremented(row) == [row EXCEPT !.messages_sent_today = @ + 1]

----------------------------------------------------------------------------
(* client_manager.py: update_client's field merge *)

\* (variant: updated_at is left alone)
Merge_noStamp(row, patch, now) ==
    [f \in DOMAIN row |->
        IF f \in DOMAIN patch /\ f \in ClientColumns THEN patch[f] ELSE row[f]]

\* for key, value in kwargs.items(): if hasattr(client, key): setattr(...)
\* then client.updated_at = utcnow()
Merge(row, patch, now) ==
    [f \in DOMAIN row |->
        IF f = "updated_at" THEN now
        ELSE IF f \in DOMAIN patch /\ f \in ClientColumns THEN patch[f]
        ELSE row[f]]

----------------------------------------------------------------------------
(* Text.  A str is a sequence of one-character strings. *)

\* str.lower() on the letters the model uses; every other character is kept.
LowerOf ==
    [c \in {"A", "B", "C", "D", "E", "I", "M", "O", "P", "R", "Ç"} |->
        CASE c = "A" -> "a" [] c = "B" -> "b" [] c = "C" -> "c" [] c = "D" -> "d"
          [] c = "E" -> "e" [] c = "I" -> "i" [] c = "M" -> "m" [] c = "O" -> "o"
          [] c = "P" -> "p" [] c = "R" -> "r" [] c = "Ç" -> "ç"]

lower(s) == [i \in 1..Len(s) |-> IF s[i] \in DOMAIN LowerOf THEN LowerOf[s[i]] ELSE s[i]]

\* Python's `word in text` on strings: word occurs in text as a substring.
In(word, text) ==
    \E i \in 0..(Len(text) - Len(word)) : SubSeq(text, i + 1, i + Len(word)) = word

\* any(word in text_lower for word in words)
AnyIn(words, text_lower) == \E k \in 1..Len(words) : In(words[k], text_lower)

----------------------------------------------------------------------------
(* handlers.py: the response policy *)

GreetingWords ==
    <<<<"o", "i">>,
      <<"o", "l", "á">>,
      <<"o", "l", "a">>,
      <<"h", "e", "y">>,
      <<"b", "o", "a">>>>
PriceWords ==
    <<<<"p", "r", "e", "ç", "o">>,
      <<"p", "r", "e", "c", "o">>,
      <<"v", "a", "l", "o", "r">>,
      <<"q", "u", "a", "n", "t", "o", " ", "c", "u", "s", "t", "a">>>>
HoursWords ==
    <<<<"h", "o", "r", "á", "r", "i", "o">>,
      <<"h", "o", "r", "a", "r", "i", "o">>,
      <<"a", "t", "e", "n", "d", "i", "m", "e", "n", "t", "o">>>>
CatalogWords ==
    <<<<"c", "a", "t", "á", "l", "o", "g", "o">>,
      <<"c", "a", "t", "a", "l", "o", "g", "o">>,
      <<"p", "r", "o", "d", "u", "t", "o", "s">>>>
ContactWords ==
    <<<<"c", "o", "n", "t", "a", "t", "o">>,
      <<"t", "e", "l", "e", "f", "o", "n", "e">>,
      <<"w", "h", "a", "t", "s", "a", "p", "p">>>>

\* The texts _get_default_response returns (their emoji are left out).
GreetingText == "Olá! Como posso ajudar você hoje?"
PriceText ==
    "Para informações sobre preços, nossa equipe te enviará todos os detalhes em breve!"
HoursText == "Nosso horário de atendimento: Seg-Sex: 9h às 18h Sáb: 9h às 13h"
CatalogText == "Vou te enviar nosso catálogo completo!"
ContactText == "Entre em contato conosco pelos nossos canais oficiais!"
CatchAllText == "Obrigado pela sua mensagem! Em breve retornaremos."

_get_default_response_hoursFirst(text_lower) ==
    IF AnyIn(GreetingWords, text_lower) THEN GreetingText
    ELSE IF AnyIn(HoursWords, text_lower) THEN HoursText
    ELSE IF AnyIn(PriceWords, text_lower) THEN PriceText
    ELSE IF AnyIn(CatalogWords, text_lower) THEN CatalogText
    ELSE IF AnyIn(ContactWords, text_lower) THEN ContactText
    ELSE CatchAllText

\* MessageHandler._get_default_response
_get_default_response(text_lower) ==
    IF AnyIn(GreetingWords, text_lower) THEN GreetingText
    ELSE IF AnyIn(PriceWords, text_lower) THEN PriceText
    ELSE IF AnyIn(HoursWords, text_lower) THEN HoursText
    ELSE IF AnyIn(CatalogWords, text_lower) THEN CatalogText
    ELSE IF AnyIn(ContactWords, text_lower) THEN ContactText
    ELSE CatchAllText

\* The loop over custom_responses.items(): the value of the first keyword, in
\* the mapping's order, that occurs in the text; None when there is none.
\* custom_responses is the sequence of the mapping's <<keyword, response>> items.
CustomResponse(custom_responses, text_lower) ==
    LET hits == {k \in 1..Len(custom_responses) :
                    In(lower(custom_responses[k][1]), text_lower)}
    IN  IF hits = {} THEN None
        ELSE custom_responses[CHOOSE k \in hits : \A j \in hits : k <= j][2]

\* MessageHandler.process_message, from text_lower to `response`:
\* `if not response` takes None and the empty string alike.
MessageResponse(custom_responses, message_text) ==
    LET text_lower == lower(message_text)
        response == CustomResponse(custom_responses, text_lower)
    IN  IF response = None \/ response = "" THEN _get_default_response(text_lower)
        ELSE response

should_reply_caseSensitive(keywords, comment_text) ==
    \E k \in 1..Len(keywords) : In(keywords[k], comment_text)

\* should_reply = any(keyword.lower() in text_lower for keyword in client_keywords)
should_reply(keywords, comment_text) ==
    \E k \in 1..Len(keywords) : In(lower(keywords[k]), lower(comment_text))

CommentPriceWords ==
    <<<<"p", "r", "e", "ç", "o">>,
      <<"p", "r", "e", "c", "o">>,
      <<"v", "a", "l", "o", "r">>>>
CommentQuoteWords ==
    <<<<"o", "r", "ç", "a", "m", "e", "n", "t", "o">>,
      <<"o", "r", "c", "a", "m", "e", "n", "t", "o">>>>
CommentInfoWords ==
    <<<<"i", "n", "f", "o", "r", "m", "a", "ç", "ã", "o">>,
      <<"i", "n", "f", "o", "r", "m", "a", "c", "a", "o">>,
      <<"i", "n", "f", "o">>>>
CommentContactWords ==
    <<<<"c", "o", "n", "t", "a", "t", "o">>,
      <<"w", "h", "a", "t", "s", "a", "p", "p">>>>

\* What _generate_comment_response says after "@username" (the emoji are left out)
CommentReply(text_lower) ==
    IF AnyIn(CommentPriceWords, text_lower) THEN " Oi! Enviamos os preços por DM!"
    ELSE IF AnyIn(CommentQuoteWords, text_lower)
    THEN " Olá! Vamos te enviar um orçamento personalizado por DM!"
    ELSE IF AnyIn(CommentInfoWords, text_lower)
    THEN " Oi! Te enviamos todas as informações por DM!"
    ELSE IF AnyIn(CommentContactWords, text_lower) THEN " Te respondemos por DM!"
    ELSE " Olá! Vamos te responder por DM!"

\* CommentHandler._generate_comment_response
_generate_comment_response(text_lower, username) ==
    "@" \o username \o CommentReply(text_lower)

\* StoryMentionHandler.process_mention: the fixed text
StoryResponse == "Obrigado por compartilhar!"

----------------------------------------------------------------------------
(* The ClientManager methods called directly, one at a time *)

\* What `last` keeps of a call: its arguments, what it returned (or raised), and
\* the clients table and the day as they were when it was made.
Call(op, arg, ret, client_id) ==
    [op |-> op, arg |-> arg, ret |-> ret, client_id |-> client_id,
     pre |-> clients, day |-> today]

AppIdle == UNCHANGED <<calls, reqs, puts>>

create_client(p) ==
    /\ IF get_client_by_email(clients, p.email) # {NoClient}
       THEN \* raise ValueError; rollback
            /\ last' = Call("create_client", p, "ValueError", NoClient)
            /\ UNCHANGED <<clients, issued>>
       ELSE /\ issued < MaxClients
            /\ issued' = issued + 1
            /\ clients' = Inserted(clients, Client(p, token_urlsafe(issued + 1), today))
            /\ last' = Call("create_client", p, NextId(clients), NoClient)
    /\ UNCHANGED <<api_keys, messages, webhooks, today>>
    /\ AppIdle

lookup_verify_token(verify_token) ==
    /\ \E c \in get_client_by_verify_token(clients, verify_token) :
          last' = Call("get_client_by_verify_token", verify_token, c, NoClient)
    /\ UNCHANGED <<clients, api_keys, messages, webhooks, today, issued>>
    /\ AppIdle

\* The table update_client(client_id, **patch) commits, when the row exists.
Updated(t, client_id, patch, now) ==
    [t EXCEPT ![client_id] = Merge(t[client_id], patch, now)]

update_client_as(op, client_id, patch) ==
    /\ IF get_client(clients, client_id) = NoClient
       THEN /\ last' = Call(op, <<client_id, patch>>, NoClient, client_id)
            /\ UNCHANGED clients
       ELSE IF EmailClash(Updated(clients, client_id, patch, today))
       THEN \* the commit fails on the unique index: rollback, raise
            /\ last' = Call(op, <<client_id, patch>>, "IntegrityError", client_id)
            /\ UNCHANGED clients
       ELSE /\ clients' = Updated(clients, client_id, patch, today)
            /\ last' = Call(op, <<client_id, patch>>, client_id, client_id)
    /\ UNCHANGED <<api_keys, messages, webhooks, today, issued>>
    /\ AppIdle

update_client(client_id, patch) == update_client_as("update_client", client_id, patch)

\* (variant: deactivating a client that is inactive already finds nothing to do)
deactivate_client_onlyActive(client_id) ==
    IF get_client(clients, client_id) # NoClient /\ ~clients[client_id].active
    THEN /\ last' = Call("deactivate_client", <<client_id, [active |-> FALSE]>>,
                         NoClient, client_id)
         /\ UNCHANGED <<clients, api_keys, messages, webhooks, today, issued>>
         /\ AppIdle
    ELSE update_client_as("deactivate_client", client_id, [active |-> FALSE])

deactivate_client(client_id) ==
    update_client_as("deactivate_client", client_id, [active |-> FALSE])

activate_client(client_id) ==
    update_client_as("activate_client", client_id, [active |-> TRUE])

\* Rows of a table that belong to other clients.
Others(table, client_id) ==
    [i \in {j \in DOMAIN table : table[j].client_id # client_id} |-> table[i]]

delete_client(client_id) ==
    /\ IF get_client(clients, client_id) = NoClient
       THEN /\ last' = Call("delete_client", client_id, FALSE, client_id)
            /\ UNCHANGED <<clients, api_keys, messages, webhooks>>
       ELSE /\ api_keys' = Others(api_keys, client_id)
            /\ messages' = {m \in messages : m.client_id # client_id}
            /\ webhooks' = Others(webhooks, client_id)
            /\ clients' = [c \in DOMAIN clients \ {client_id} |-> clients[c]]
            /\ last' = Call("delete_client", client_id, TRUE, client_id)
    /\ UNCHANGED <<today, issued>>
    /\ AppIdle

check_rate_limit(client_id) ==
    /\ IF get_client(clients, client_id) = NoClient
       THEN /\ last' = Call("check_rate_limit", client_id, FALSE, client_id)
            /\ UNCHANGED clients
       ELSE /\ clients' = [clients EXCEPT ![client_id] = RowAfterCheck(@, today)]
            /\ last' = Call("check_rate_limit", client_id,
                            UnderLimit(RowAfterCheck(clients[client_id], today)), client_id)
    /\ UNCHANGED <<api_keys, messages, webhooks, today, issued>>
    /\ AppIdle

increment_message_count(client_id) ==
    /\ IF get_client(clients, client_id) = NoClient
       THEN UNCHANGED clients
       ELSE /\ clients[client_id].messages_sent_today < MaxCount
            /\ clients' = [clients EXCEPT ![client_id] = Incremented(@)]
    /\ last' = Call("increment_message_count", client_id, None, client_id)
    /\ UNCHANGED <<api_keys, messages, webhooks, today, issued>>
    /\ AppIdle

\* Midnight UTC passes.
Tick ==
    /\ today < MaxDay
    /\ today' = today + 1
    /\ UNCHANGED <<clients, api_keys, messages, webhooks, calls, issued, puts, reqs, last>>

InitDB ==
    /\ clients = <<>>
    /\ api_keys = <<>>
    /\ messages = {}
    /\ webhooks = <<>>
    /\ today = 1
    /\ calls = {}
    /\ issued = 0
    /\ puts = 0

InitManager ==
    /\ InitDB
    /\ reqs = <<>>
    /\ last = [op |-> "none", arg |-> None, ret |-> None, client_id |-> NoClient,
               pre |-> <<>>, day |-> 1]

\* The tenant directory, called in any order.
NextDirectory ==
    \/ \E p \in Profiles : create_client(p)
    \/ \E t \in Tokens : lookup_verify_token(t)
    \/ \E c \in ClientIds, p \in Patches : update_client(c, p)
    \/ \E c \in ClientIds : deactivate_client(c)
    \/ \E c \in ClientIds : activate_client(c)
    \/ \E c \in ClientIds : delete_client(c)

SpecDirectory == InitManager /\ [][NextDirectory]_vars

\* The quota tracker, called in any order on the registered clients.
NextQuota ==
    \/ \E p \in Profiles : create_client(p)
    \/ \E c \in ClientIds : check_rate_limit(c)
    \/ \E c \in ClientIds : increment_message_count(c)
    \/ Tick

SpecQuota == InitManager /\ [][NextQuota]_vars

----------------------------------------------------------------------------
(* app.py: the HTTP requests.  Each request has a session of its own; the    *)
(* Client object it holds keeps the attributes it loaded until the session   *)
(* commits, which expires them; the next attribute access loads them again.  *)

Reqs == 1..MaxReq

PathTokens == 0..MaxClients     \* the <verify_token> of the URL; 0 is never issued

\* What request.get_json() gives: it raises on a body that is no JSON; the JSON
\* null; or an object whose entries hold n sub-events in all.
Bodies ==
    {[kind |-> "bad_json", n |-> 0], [kind |-> "null", n |-> 0]} \cup
    {[kind |-> "object", n |-> k] : k \in 0..MaxSub}

Texts == {<<"P", "r", "o", "m", "o">>, <<"P", "r", "e", "ç", "o", "?">>}

\* The elements of entry['messaging'] and entry['changes'], by shape:
\*   messaging: a message with text, an echo of a text the account sent, a
\*     message without text, a story mention, an event with neither key, and
\*     one whose 'message' is null;
\*   changes: a comment, a mention, another field, a comment without 'value'.
SubEvents ==
    {[list |-> "messaging", shape |-> sh, text |-> t] :
        sh \in {"message", "echo"}, t \in Texts} \cup
    {[list |-> "messaging", shape |-> sh, text |-> <<>>] :
        sh \in {"no_text", "story_mention", "other", "bad"}} \cup
    {[list |-> "changes", shape |-> "comment", text |-> t] : t \in Texts} \cup
    {[list |-> "changes", shape |-> sh, text |-> <<>>] :
        sh \in {"mentions", "other", "bad"}}

SenderId == "u1"        \* event['sender']['id']
Username == "ana"       \* value['from']['username']
CommentId == "c1"       \* value['id']

\* Profiles and patches the management API is called with.
AppProfiles == {p \in Profiles : p.daily_limit > 0}

AppPatches ==
    {[verify_token |-> t] : t \in Tokens} \cup
    {[active |-> FALSE], [auto_reply_enabled |-> FALSE]}

NoRow == [expired |-> TRUE]
NoEvent == [list |-> "none", shape |-> "none", text |-> <<>>]
NoApi == [access_token |-> "", account_id |-> ""]

\* A request slot before its request arrives.
\*   verify_token, owners, active_owners, muted_owners: the path token, the
\*     clients that stored it when the request arrived, those of them that were
\*     active, and those whose auto_reply_enabled was false;
\*   client, loaded, row: the Client object of the session;
\*   body, todo, sub: the payload, the sub-events not yet dispatched, and the
\*     number of the one being handled;
\*   ev, api, response, sent, error: the handler's locals;
\*   refused: how many of its sub-events check_rate_limit has turned down;
\*   echoes: how many of its sub-events were messages with 'is_echo';
\*   webhook_id: the Webhook row log_webhook returned;
\*   reply, status: the HTTP response.
Idle ==
    [kind |-> "none", pc |-> "idle", verify_token |-> 0, owners |-> {},
     active_owners |-> {}, muted_owners |-> {},
     client |-> NoClient, loaded |-> FALSE, row |-> NoRow,
     body |-> "none", todo |-> 0, sub |-> 0, refused |-> 0, echoes |-> 0,
     ev |-> NoEvent, api |-> NoApi, response |-> "", sent |-> FALSE, error |-> None,
     webhook_id |-> 0, reply |-> "", status |-> 0]

\* return reply, status (after db.close())
Done(r, reply, status) ==
    [r EXCEPT !.pc = "done", !.reply = reply, !.status = status,
              !.loaded = FALSE, !.row = NoRow, !.ev = NoEvent, !.api = NoApi,
              !.response = "", !.sent = FALSE, !.error = None]

\* webhook_receive's `except Exception`: return 'ERROR', 500
Raise(r) == Done(r, "ERROR", 500)

\* The handler returns: back to the loops of process_entry.
Return(r) ==
    [r EXCEPT !.pc = "entries", !.ev = NoEvent, !.api = NoApi,
              !.response = "", !.sent = FALSE, !.error = None]

\* db.commit() expires every object of the session.
Expired(r) == [r EXCEPT !.loaded = FALSE, !.row = NoRow]

\* An attribute of the session's Client is read: loaded again if expired.
\* Gone: the row is no longer there to load (ObjectDeletedError).
Gone(r) == ~r.loaded /\ r.client \notin DOMAIN clients
Attrs(r) == IF r.loaded THEN r.row ELSE clients[r.client]
Loaded(r) == [r EXCEPT !.loaded = TRUE, !.row = Attrs(r)]

\* The UPDATE a commit issues for an object loaded as `old` and changed to
\* `new`: only the columns whose value changed are written.
Flush(dbrow, old, new) ==
    [f \in DOMAIN dbrow |-> IF new[f] # old[f] THEN new[f] ELSE dbrow[f]]

\* InstagramAPI.__init__: the credentials the handler's adapter keeps
InstagramAPI(row) ==
    [access_token |-> row.access_token, account_id |-> row.instagram_account_id]

\* Webhook(client_id=..., event_type='instagram_event', payload=data) with the
\* column defaults; req: the request that logged it; marked: how many times
\* mark_webhook_processed has written it.
Webhook(client_id, req) ==
    [client_id |-> client_id, event_type |-> "instagram_event", processed |-> FALSE,
     error |-> None, processed_at |-> 0, req |-> req, marked |-> 0]

\* Message(...) as log_message builds it, for sub-event `sub` of request `req`.
Message(r, req) ==
    [client_id |-> r.client,
     recipient_id |-> IF r.ev.shape = "comment" THEN Username ELSE SenderId,
     message_type |-> CASE r.ev.shape = "message" -> "dm"
                        [] r.ev.shape = "comment" -> "comment"
                        [] OTHER -> "story_mention",
     message_text |-> r.response, sent |-> r.sent, error |-> r.error,
     req |-> req, sub |-> r.sub]

\* The request the Graph API receives from send_message / reply_to_comment.
\* sent_today: the tenant's stored counter when the request is made.
ApiCall(r, req, outcome) ==
    [access_token |-> r.api.access_token,
     endpoint |-> IF r.ev.shape = "comment" THEN CommentId \o "/replies"
                  ELSE r.api.account_id \o "/messages",
     recipient |-> IF r.ev.shape = "comment" THEN CommentId ELSE SenderId,
     text |-> r.response, outcome |-> outcome, req |-> req, sub |-> r.sub,
     sent_today |-> IF r.client \in DOMAIN clients
                    THEN clients[r.client].messages_sent_today ELSE 0]

DBunchanged == UNCHANGED <<clients, api_keys, messages, webhooks, issued>>
Quiet == UNCHANGED <<today, last, puts>>

\* webhook_receive once the lookup returned `client`: the two refusals.
Resolved_unchecked(r, client) ==
    IF client = NoClient THEN Done(r, "Forbidden", 403)
    ELSE [r EXCEPT !.client = client, !.loaded = TRUE,
                   !.row = clients[client], !.pc = "log_webhook"]

Resolved(r, client) ==
    IF client = NoClient THEN Done(r, "Forbidden", 403)
    ELSE IF ~clients[client].active
    THEN Done([r EXCEPT !.client = client], "CLIENT_INACTIVE", 200)
    ELSE [r EXCEPT !.client = client, !.loaded = TRUE,
                   !.row = clients[client], !.pc = "log_webhook"]

\* webhook_receive up to log_webhook: get_json, then the lookup.
webhook_receive(i) ==
    /\ reqs[i].pc = "idle"
    /\ IF i = 1 THEN TRUE ELSE reqs[i - 1].pc # "idle"   \* slots are taken in order
    /\ \E verify_token \in PathTokens, data \in Bodies :
        LET r == [Idle EXCEPT !.kind = "webhook_receive",
                              !.verify_token = verify_token,
                              !.owners = {c \in DOMAIN clients :
                                            clients[c].verify_token = verify_token},
                              !.active_owners = {c \in DOMAIN clients :
                                            /\ clients[c].verify_token = verify_token
                                            /\ clients[c].active},
                              !.muted_owners = {c \in DOMAIN clients :
                                            /\ clients[c].verify_token = verify_token
                                            /\ ~clients[c].auto_reply_enabled},
                              !.body = data.kind, !.todo = data.n]
        IN  IF data.kind = "bad_json"
            THEN reqs' = [reqs EXCEPT ![i] = Raise(r)]
            ELSE \E client \in get_client_by_verify_token(clients, verify_token) :
                 reqs' = [reqs EXCEPT ![i] = Resolved(r, client)]
    /\ DBunchanged /\ Quiet /\ UNCHANGED calls

\* manager.log_webhook(event_type, payload, client_id): insert and commit
log_webhook(i) ==
    /\ reqs[i].pc = "log_webhook"
    /\ webhooks' = Inserted(webhooks, Webhook(reqs[i].client, i))
    /\ reqs' = [reqs EXCEPT ![i] =
                  Expired([@ EXCEPT !.webhook_id = NextId(webhooks), !.pc = "entries"])]
    /\ UNCHANGED <<clients, api_keys, messages, issued, calls>> /\ Quiet

\* `if 'entry' in data` on the JSON null: TypeError
entry_of_null(i) ==
    /\ reqs[i].pc = "entries" /\ reqs[i].body = "null"
    /\ reqs' = [reqs EXCEPT ![i] = Raise(@)]
    /\ DBunchanged /\ Quiet /\ UNCHANGED calls

\* The next element of entry['messaging'] is taken.
Taken(r, event) ==
    [r EXCEPT !.todo = @ - 1, !.sub = @ + 1,
              !.echoes = IF event.shape = "echo" THEN @ + 1 ELSE @]

\* (variant: no test of 'is_echo')
process_messaging_event_answersEcho(i, event) ==
    /\ reqs[i].pc = "entries" /\ reqs[i].body = "object" /\ reqs[i].todo > 0
    /\ event.list = "messaging"
    /\ LET r == Taken(reqs[i], event)
           h == [Loaded(r) EXCEPT !.api = InstagramAPI(Attrs(r)), !.ev = event]
       IN  reqs' = [reqs EXCEPT ![i] =
              IF Gone(r) \/ event.shape = "bad" THEN Raise(r)
              ELSE IF event.shape \in {"message", "echo"} THEN [h EXCEPT !.pc = "check"]
              ELSE IF event.shape = "story_mention" /\ h.row.auto_reply_enabled
              THEN [h EXCEPT !.response = StoryResponse, !.pc = "send"]
              ELSE Return(h)]
    /\ DBunchanged /\ Quiet /\ UNCHANGED calls

\* process_messaging_event on the next element of entry['messaging']: only a
\* message with text that has no 'is_echo', or a story mention, gets a handler
\* to act.
process_messaging_event(i, event) ==
    /\ reqs[i].pc = "entries" /\ reqs[i].body = "object" /\ reqs[i].todo > 0
    /\ event.list = "messaging"
    /\ LET r == Taken(reqs[i], event)
           h == [Loaded(r) EXCEPT !.api = InstagramAPI(Attrs(r)), !.ev = event]
       IN  reqs' = [reqs EXCEPT ![i] =
              IF Gone(r) \/ event.shape = "bad" THEN Raise(r)
              ELSE IF event.shape = "message" THEN [h EXCEPT !.pc = "check"]
              ELSE IF event.shape = "story_mention" /\ h.row.auto_reply_enabled
              THEN [h EXCEPT !.response = StoryResponse, !.pc = "send"]
              ELSE Return(h)]
    /\ DBunchanged /\ Quiet /\ UNCHANGED calls

\* process_change_event on the next element of entry['changes']
process_change_event(i, change) ==
    /\ reqs[i].pc = "entries" /\ reqs[i].body = "object" /\ reqs[i].todo > 0
    /\ change.list = "changes"
    /\ LET r == [reqs[i] EXCEPT !.todo = @ - 1, !.sub = @ + 1]
           h == [Loaded(r) EXCEPT !.api = InstagramAPI(Attrs(r)), !.ev = change]
       IN  reqs' = [reqs EXCEPT ![i] =
              IF change.shape = "bad" THEN Raise(r)
              ELSE IF change.shape = "other" THEN Return(r)
              ELSE IF Gone(r) THEN Raise(r)
              ELSE IF change.shape = "comment" THEN [h EXCEPT !.pc = "check"]
              ELSE Return(Loaded(r))]
    /\ DBunchanged /\ Quiet /\ UNCHANGED calls

\* process_message / process_comment after check_rate_limit returned: the
\* quota, the auto-reply flag, then the response (a comment without keyword:
\* none).
Decide_ignoresFlag(r) ==
    IF ~UnderLimit(r.row) THEN Return([r EXCEPT !.refused = @ + 1])
    ELSE IF r.ev.shape = "message"
    THEN [r EXCEPT !.response = MessageResponse(r.row.custom_responses, r.ev.text),
                   !.pc = "send"]
    ELSE IF should_reply(r.row.keywords, r.ev.text)
    THEN [r EXCEPT !.response = _generate_comment_response(lower(r.ev.text), Username),
                   !.pc = "send"]
    ELSE Return(r)

Decide_unchecked(r) ==
    IF ~r.row.auto_reply_enabled THEN Return(r)
    ELSE IF r.ev.shape = "message"
    THEN [r EXCEPT !.response = MessageResponse(r.row.custom_responses, r.ev.text),
                   !.pc = "send"]
    ELSE IF should_reply(r.row.keywords, r.ev.text)
    THEN [r EXCEPT !.response = _generate_comment_response(lower(r.ev.text), Username),
                   !.pc = "send"]
    ELSE Return(r)

Decide(r) ==
    IF ~UnderLimit(r.row) THEN Return([r EXCEPT !.refused = @ + 1])
    ELSE IF ~r.row.auto_reply_enabled THEN Return(r)
    ELSE IF r.ev.shape = "message"
    THEN [r EXCEPT !.response = MessageResponse(r.row.custom_responses, r.ev.text),
                   !.pc = "send"]
    ELSE IF should_reply(r.row.keywords, r.ev.text)
    THEN [r EXCEPT !.response = _generate_comment_response(lower(r.ev.text), Username),
                   !.pc = "send"]
    ELSE Return(r)

\* client_manager.check_rate_limit(self.client.id), called by the handler: a
\* new day is committed (and the comparison is made on the row loaded again,
\* in handler_compare); on the same day the comparison is made at once.
handler_check_rate_limit(i) ==
    /\ reqs[i].pc = "check"
    /\ LET r == reqs[i] IN
       IF get_client(clients, r.client) = NoClient
       THEN /\ reqs' = [reqs EXCEPT ![i] = Return(r)]
            /\ UNCHANGED clients
       ELSE IF IsNewDay(r.row, today)
       THEN /\ clients' = [clients EXCEPT ![r.client] =
                              Flush(@, r.row, ResetCounter(r.row, today))]
            /\ reqs' = [reqs EXCEPT ![i] = Expired([r EXCEPT !.pc = "compare"])]
       ELSE /\ reqs' = [reqs EXCEPT ![i] = Decide(r)]
            /\ UNCHANGED clients
    /\ UNCHANGED <<api_keys, messages, webhooks, issued, calls>> /\ Quiet

handler_compare(i) ==
    /\ reqs[i].pc = "compare"
    /\ reqs' = [reqs EXCEPT ![i] = IF Gone(@) THEN Raise(@) ELSE Decide(Loaded(@))]
    /\ DBunchanged /\ Quiet /\ UNCHANGED calls

\* self.api.send_message / reply_to_comment: the Graph API answers, or the
\* request fails (_make_request returns None), or the call raises.
api_call(i, outcome) ==
    /\ reqs[i].pc = "send"
    /\ calls' = calls \cup {ApiCall(reqs[i], i, outcome)}
    /\ reqs' = [reqs EXCEPT ![i] =
          IF outcome = "raise"
          THEN IF @.ev.shape = "message"
               THEN [@ EXCEPT !.sent = FALSE, !.error = "exception", !.pc = "log_message"]
               ELSE Return(@)
          ELSE [@ EXCEPT !.sent = (outcome = "result"), !.pc = "log_message"]]
    /\ DBunchanged /\ Quiet

\* (variant: log_message that counts every attempt)
handler_log_message_countsAll(i) ==
    /\ reqs[i].pc = "log_message"
    /\ messages' = messages \cup {Message(reqs[i], i)}
    /\ reqs' = [reqs EXCEPT ![i] = Expired([@ EXCEPT !.pc = "increment"])]
    /\ UNCHANGED <<clients, api_keys, webhooks, issued, calls>> /\ Quiet

\* log_message: the Message row is inserted and committed
handler_log_message(i) ==
    /\ reqs[i].pc = "log_message"
    /\ messages' = messages \cup {Message(reqs[i], i)}
    /\ reqs' = [reqs EXCEPT ![i] =
          IF @.sent THEN Expired([@ EXCEPT !.pc = "increment"]) ELSE Expired(Return(@))]
    /\ UNCHANGED <<clients, api_keys, webhooks, issued, calls>> /\ Quiet

\* log_message: `if sent: self.increment_message_count(client_id)`, the query
handler_increment_read(i) ==
    /\ reqs[i].pc = "increment"
    /\ reqs' = [reqs EXCEPT ![i] =
          IF get_client(clients, @.client) = NoClient THEN Return(@)
          ELSE [Loaded(@) EXCEPT !.pc = "increment_commit"]]
    /\ DBunchanged /\ Quiet /\ UNCHANGED calls

\* ... and `client.messages_sent_today += 1; self.db.commit()`.  When the row
\* has been deleted meanwhile the commit raises inside the handler's try:
\* process_message logs the failure, the other two handlers only report it.
handler_increment_commit(i) ==
    /\ reqs[i].pc = "increment_commit"
    /\ LET r == reqs[i] IN
       IF r.client \notin DOMAIN clients
       THEN /\ reqs' = [reqs EXCEPT ![i] =
                  IF r.ev.shape = "message"
                  THEN Expired([r EXCEPT !.sent = FALSE, !.error = "exception",
                                         !.pc = "log_message"])
                  ELSE Expired(Return(r))]
            /\ UNCHANGED clients
       ELSE /\ clients' = [clients EXCEPT ![r.client] = Flush(@, r.row, Incremented(r.row))]
            /\ reqs' = [reqs EXCEPT ![i] = Expired(Return(r))]
    /\ UNCHANGED <<api_keys, messages, webhooks, issued, calls>> /\ Quiet

\* The row mark_webhook_processed commits.
Processed(row, now) ==
    [row EXCEPT !.processed = TRUE, !.processed_at = now, !.marked = @ + 1]

\* manager.mark_webhook_processed(webhook.id) (`if webhook:`) and
\* return 'EVENT_RECEIVED', 200
Marked(i) ==
    /\ webhooks' = IF reqs[i].webhook_id \in DOMAIN webhooks
                   THEN [webhooks EXCEPT ![reqs[i].webhook_id] = Processed(@, today)]
                   ELSE webhooks
    /\ reqs' = [reqs EXCEPT ![i] = Done(@, "EVENT_RECEIVED", 200)]
    /\ UNCHANGED <<clients, api_keys, messages, issued, calls>> /\ Quiet

mark_webhook_processed_early(i) ==
    /\ reqs[i].pc = "entries" /\ reqs[i].body = "object"
    /\ Marked(i)

\* The loops of webhook_receive are over.
mark_webhook_processed(i) ==
    /\ reqs[i].pc = "entries" /\ reqs[i].body = "object" /\ reqs[i].todo = 0
    /\ Marked(i)

\* ApiKey(client_id, key, name): key = "sk_" + token_urlsafe(48)
ApiKey(client_id, n) ==
    [client_id |-> client_id, key |-> <<"sk", token_urlsafe(n)>>, active |-> TRUE,
     last_used_at |-> 0]

\* POST /api/clients for profile p as the n-th registration, on day `now`:
\* the rows create_client and generate_api_key insert.
Registered(p, n, now) ==
    [client |-> Client(p, token_urlsafe(n), now), api_key |-> ApiKey(n, n)]

\* PUT /api/clients/<id>: update_client(client_id, **data); 404 when not found
route_update_client(client_id, data) ==
    /\ puts < MaxPuts
    /\ puts' = puts + 1
    /\ IF get_client(clients, client_id) = NoClient
          \/ EmailClash(Updated(clients, client_id, data, today))
       THEN UNCHANGED clients
       ELSE clients' = Updated(clients, client_id, data, today)
    /\ UNCHANGED <<api_keys, messages, webhooks, issued, calls, reqs, today, last>>

\* The deployment the webhook endpoint serves: a@x.com and b@x.com registered
\* on day 1, in this order; no request received yet.
Deployed ==
    /\ clients = [n \in 1..2 |->
                    Registered(CHOOSE p \in AppProfiles :
                                 p.email = (IF n = 1 THEN "a@x.com" ELSE "b@x.com"),
                               n, 1).client]
    /\ api_keys = [n \in 1..2 |->
                    Registered(CHOOSE p \in AppProfiles :
                                 p.email = (IF n = 1 THEN "a@x.com" ELSE "b@x.com"),
                               n, 1).api_key]
    /\ messages = {} /\ webhooks = <<>> /\ calls = {}
    /\ today = 1 /\ issued = 2 /\ puts = 0
    /\ last = [op |-> "none", arg |-> None, ret |-> None, client_id |-> NoClient,
               pre |-> <<>>, day |-> 1]

Init ==
    /\ Deployed
    /\ reqs = [i \in Reqs |-> Idle]

Next ==
    \/ \E c \in ClientIds, data \in AppPatches : route_update_client(c, data)
    \/ \E i \in Reqs : webhook_receive(i)
    \/ \E i \in Reqs : log_webhook(i)
    \/ \E i \in Reqs : entry_of_null(i)
    \/ \E i \in Reqs, ev \in SubEvents : process_messaging_event(i, ev)
    \/ \E i \in Reqs, ev \in SubEvents : process_change_event(i, ev)
    \/ \E i \in Reqs : handler_check_rate_limit(i)
    \/ \E i \in Reqs : handler_compare(i)
    \/ \E i \in Reqs, outcome \in {"result", "none", "raise"} : api_call(i, outcome)
    \/ \E i \in Reqs : handler_log_message(i)
    \/ \E i \in Reqs : handler_increment_read(i)
    \/ \E i \in Reqs : handler_increment_commit(i)
    \/ \E i \in Reqs : mark_webhook_processed(i)
    \/ Tick

Spec == Init /\ [][Next]_vars

----------------------------------------------------------------------------
(* Deliveries racing for one tenant's quota *)

\* The deliveries of SpecRace: each is a POST /webhook/<token of client 1>
\* whose body holds one direct message.
Racing == 1..MaxRacing
RaceEvents == {[list |-> "messaging", shape |-> "message", text |-> <<"P", "r", "o", "m", "o">>]}

InitRace ==
    /\ Deployed
    /\ reqs = [i \in Racing |-> Idle]

NextRace ==
    \/ \E i \in Racing :
          /\ webhook_receive(i)
          /\ reqs'[i].verify_token = 1 /\ reqs'[i].body = "object" /\ reqs'[i].todo = 1
    \/ \E i \in Racing : log_webhook(i)
    \/ \E i \in Racing, ev \in RaceEvents : process_messaging_event(i, ev)
    \/ \E i \in Racing : handler_check_rate_limit(i)
    \/ \E i \in Racing : handler_compare(i)
    \/ \E i \in Racing : api_call(i, "result")
    \/ \E i \in Racing : handler_log_message(i)
    \/ \E i \in Racing : handler_increment_read(i)
    \/ \E i \in Racing : handler_increment_commit(i)
    \/ \E i \in Racing : mark_webhook_processed(i)
    \/ Tick

SpecRace == InitRace /\ [][NextRace]_vars

----------------------------------------------------------------------------
(* Properties of the tenant directory (SpecDirectory) *)

\* C2: get_client_by_verify_token(tok) returns tenant T if and only if tok
\* equals T's stored verify_token: every existing tenant is returned for its
\* own token and no tenant is returned for another token.
C2_TokenResolvesExactlyItsTenant ==
    last.op = "get_client_by_verify_token" =>
        \A T \in DOMAIN clients :
            (last.ret = T) <=> (clients[T].verify_token = last.arg)

----------------------------------------------------------------------------
(* Properties of the quota tracker (SpecQuota) *)

\* The call `last` records was made on an existing client, on the day of its
\* last_reset_date.
SameDayCall(op) ==
    /\ last.op = op
    /\ last.client_id \in DOMAIN last.pre
    /\ last.pre[last.client_id].last_reset_date = last.day

\* C8: on the day of last_reset_date, check_rate_limit(T) returns true exactly
\* when messages_sent_today < daily_message_limit and leaves the counter and
\* last_reset_date (indeed the whole table) as they were; for an id that does
\* not exist it returns false.
C8_CheckSameDay ==
    /\ SameDayCall("check_rate_limit") =>
          LET row == last.pre[last.client_id] IN
          /\ last.ret = (row.messages_sent_today < row.daily_message_limit)
          /\ clients = last.pre
    /\ (last.op = "check_rate_limit" /\ last.client_id \notin DOMAIN last.pre) =>
          last.ret = FALSE

\* C8 witness: a same-day check on a client that has used up its limit, refused.
C8_Witness ==
    /\ SameDayCall("check_rate_limit")
    /\ last.pre[last.client_id].daily_message_limit > 0
    /\ last.pre[last.client_id].messages_sent_today
          = last.pre[last.client_id].daily_message_limit
    /\ last.ret = FALSE

FirstCheckOfDay ==
    /\ last.op = "check_rate_limit"
    /\ last.client_id \in DOMAIN last.pre
    /\ last.pre[last.client_id].last_reset_date < last.day
    /\ last.pre[last.client_id].messages_sent_today > 0

\* C10: the first check_rate_limit of a new day sets messages_sent_today to 0
\* and last_reset_date to today before comparing, so it returns true whenever
\* daily_message_limit > 0, whatever the counter was.
C10_CheckResetsOnNewDay ==
    FirstCheckOfDay =>
        /\ clients[last.client_id].messages_sent_today = 0
        /\ clients[last.client_id].last_reset_date = last.day
        /\ last.pre[last.client_id].daily_message_limit > 0 => last.ret = TRUE

\* C10 witness: yesterday's counter had reached the limit, today's first check
\* passes.
C10_Witness ==
    /\ FirstCheckOfDay
    /\ last.pre[last.client_id].daily_message_limit > 0
    /\ last.pre[last.client_id].messages_sent_today
          >= last.pre[last.client_id].daily_message_limit
    /\ last.ret = TRUE

----------------------------------------------------------------------------
(* Properties of the webhook endpoint (Spec) *)

\* Request i is a webhook delivery: a POST /webhook/<token> with a JSON body
\* that holds an `entry` array.
Delivery(i) == reqs[i].kind = "webhook_receive" /\ reqs[i].body = "object"

\* ... that has been answered.
Returned(i) == Delivery(i) /\ reqs[i].pc = "done"

\* ... whose token was stored by active tenants only when it arrived.
ToActive(i) == reqs[i].owners # {} /\ reqs[i].active_owners = reqs[i].owners

\* What request i has written so far.
WebhooksOf(i) == {w \in DOMAIN webhooks : webhooks[w].req = i}
MessagesOf(i) == {m \in messages : m.req = i}
CallsOf(i) == {c \in calls : c.req = i}

\* C1: tenant isolation.  For a delivery on tenant T's verification token
\* (T stored the path token when the delivery arrived), every Webhook and
\* Message record written while handling it carries client_id = T and every
\* adapter call uses T's access token.
C1_RecordsCarryTheTokensTenant ==
    \A i \in Reqs : Delivery(i) =>
        \A T \in reqs[i].owners \cap DOMAIN clients :
            /\ \A w \in WebhooksOf(i) : webhooks[w].client_id = T
            /\ \A m \in MessagesOf(i) : m.client_id = T
            /\ \A c \in CallsOf(i) : c.access_token = clients[T].access_token

\* Request i is answered with `reply` and `status`.
Answered(i, reply, status) ==
    reqs[i].pc = "done" /\ reqs[i].reply = reply /\ reqs[i].status = status

\* C3: a delivery whose token resolves to no tenant is answered Forbidden/403
\* and one whose token resolves to an inactive tenant CLIENT_INACTIVE/200, in
\* the step that receives it and without writing anything; a delivery answered
\* so has no Webhook record, no Message record and no adapter call.
C3_RefusedDeliveryWritesNothing ==
    [][\A i \in Reqs :
        /\ (reqs[i].pc = "idle" /\ Delivery(i)') =>
              /\ reqs'[i].owners = {} => Answered(i, "Forbidden", 403)'
              /\ (\E c \in DOMAIN clients : reqs'[i].client = c /\ ~clients[c].active)
                    => Answered(i, "CLIENT_INACTIVE", 200)'
              /\ reqs'[i].reply \in {"Forbidden", "CLIENT_INACTIVE"} =>
                    UNCHANGED <<clients, api_keys, messages, webhooks, calls>>
        /\ (Delivery(i)' /\ reqs'[i].reply \in {"Forbidden", "CLIENT_INACTIVE"}) =>
              (WebhooksOf(i) = {} /\ MessagesOf(i) = {} /\ CallsOf(i) = {})'
      ]_vars

\* C3 witness: a delivery on the token of a deactivated tenant, refused.
C3_Witness ==
    \E i \in Reqs :
        /\ Delivery(i) /\ Answered(i, "CLIENT_INACTIVE", 200)
        /\ reqs[i].client \in reqs[i].owners /\ reqs[i].active_owners = {}

\* C4: every delivery whose token resolves to an active tenant is answered
\* EVENT_RECEIVED/200, whatever its entries contain.
C4_ActiveDeliveryAcknowledged ==
    \A i \in Reqs : (Returned(i) /\ ToActive(i)) => Answered(i, "EVENT_RECEIVED", 200)

\* C5: per-entry failure isolation.  When a delivery to an active tenant has
\* returned, every sub-event of it has been handed to its handler.
C5_EverySubEventDispatched ==
    \A i \in Reqs : (Returned(i) /\ ToActive(i)) => reqs[i].todo = 0

\* C6: a Webhook record is marked processed at most once, with processed_at
\* set, and none stays unprocessed after its delivery has returned.
C6_WebhookMarkedOnce ==
    \A w \in DOMAIN webhooks :
        /\ webhooks[w].marked <= 1
        /\ webhooks[w].processed <=> webhooks[w].marked = 1
        /\ webhooks[w].processed => webhooks[w].processed_at # 0
        /\ Returned(webhooks[w].req) => webhooks[w].processed

\* C7: ordering within one delivery.  Adapter calls and Message records of a
\* delivery exist only once its Webhook record does; a Message record exists
\* only once the adapter call of its sub-event has been made, and says what
\* that call returned; the Webhook record is processed only when no sub-event
\* is left and no handler is running.
C7_OrderWithinDelivery ==
    \A i \in Reqs :
        /\ (CallsOf(i) # {} \/ MessagesOf(i) # {}) => WebhooksOf(i) # {}
        /\ \A m \in MessagesOf(i) :
              \E c \in CallsOf(i) :
                  /\ c.sub = m.sub /\ c.text = m.message_text
                  /\ m.sent = (c.outcome = "result")
        /\ \A w \in WebhooksOf(i) :
              webhooks[w].processed => (reqs[i].pc = "done" /\ reqs[i].todo = 0)

\* C7 witness: a delivery of two sub-events, both answered and logged, whose
\* Webhook record is processed.
C7_Witness ==
    \E i \in Reqs :
        /\ \E w \in WebhooksOf(i) : webhooks[w].processed
        /\ \E m \in MessagesOf(i) : m.sub = 1
        /\ \E m \in MessagesOf(i) : m.sub = 2

----------------------------------------------------------------------------
(* More properties of the quota tracker (SpecQuota) *)

\* The call `last` records was an increment_message_count on an existing
\* client whose last_reset_date is an earlier day and whose counter is N > 0.
FirstIncrementOfDay ==
    /\ last.op = "increment_message_count"
    /\ last.client_id \in DOMAIN last.pre
    /\ last.pre[last.client_id].last_reset_date < last.day
    /\ last.pre[last.client_id].messages_sent_today > 0

\* C11: day rollover on increment.  When the first quota operation of a new
\* day is an increment, messages_sent_today is 1 and last_reset_date is today
\* after it.
C11_IncrementResetsOnNewDay ==
    FirstIncrementOfDay =>
        /\ clients[last.client_id].messages_sent_today = 1
        /\ clients[last.client_id].last_reset_date = last.day

----------------------------------------------------------------------------
(* Properties of racing deliveries (SpecRace) *)

\* C12: the new-day reset is idempotent.  Once a tenant's counter has been
\* reset today (last_reset_date is today), no later check of the same day, of
\* this or of another request, resets it again: the counter does not go down
\* while the day lasts.
C12_ResetOncePerDay ==
    [][\A T \in DOMAIN clients :
          (clients[T].last_reset_date = today /\ today' = today) =>
              clients'[T].messages_sent_today >= clients[T].messages_sent_today
      ]_vars

\* C13: the quota is a soft limit under concurrency.  Every delivery about to
\* call the adapter for a direct message has seen the counter below the limit
\* in its own session, and the stored counter exceeds the limit by less than
\* the number of deliveries.
C13_SoftLimit ==
    /\ \A i \in DOMAIN reqs :
          (reqs[i].pc = "send" /\ reqs[i].ev.shape = "message") =>
              /\ reqs[i].loaded
              /\ reqs[i].row.messages_sent_today < reqs[i].row.daily_message_limit
    /\ \A T \in DOMAIN clients :
          clients[T].messages_sent_today
              < clients[T].daily_message_limit + Cardinality(DOMAIN reqs)

\* C13 witness: two deliveries for client 1 both called the adapter while the
\* stored counter was daily_message_limit - 1 (both had passed the check
\* before either incremented), both have returned, and the counter is above
\* the limit.
C13_Witness ==
    \E i, j \in DOMAIN reqs :
        /\ i # j /\ reqs[i].pc = "done" /\ reqs[j].pc = "done"
        /\ \E a \in CallsOf(i), b \in CallsOf(j) :
              /\ a.outcome = "result" /\ b.outcome = "result"
              /\ a.sent_today = clients[1].daily_message_limit - 1
              /\ b.sent_today = clients[1].daily_message_limit - 1
        /\ clients[1].messages_sent_today > clients[1].daily_message_limit

----------------------------------------------------------------------------
(* Properties of the handlers (Spec) *)

\* C14: with requests handled one at a time and daily_message_limit left as
\* registered, messages_sent_today never exceeds daily_message_limit, over all
\* send paths.
C14_CounterWithinLimit ==
    \A T \in DOMAIN clients :
        clients[T].messages_sent_today <= clients[T].daily_message_limit

\* Delivery i was resolved to a tenant whose auto_reply_enabled was false when
\* it arrived and still is.
Muted(i) ==
    /\ Delivery(i)
    /\ reqs[i].client \in reqs[i].muted_owners \cap DOMAIN clients
    /\ ~clients[reqs[i].client].auto_reply_enabled

\* C15: for a tenant with auto_reply_enabled = false, handling the events of
\* a delivery makes no adapter call and creates no Message record.
C15_MutedTenantSendsNothing ==
    \A i \in Reqs : Muted(i) => (CallsOf(i) = {} /\ MessagesOf(i) = {})

\* C15 witness: a delivery of two events to a muted tenant has returned; one
\* of its handlers ran check_rate_limit on day 2 (the reset is committed) and
\* nothing was sent.
C15_Witness ==
    \E i \in Reqs :
        /\ Muted(i) /\ Answered(i, "EVENT_RECEIVED", 200) /\ reqs[i].sub = 2
        /\ clients[reqs[i].client].last_reset_date = 2
        /\ CallsOf(i) = {}

\* The quota check fails for the row: same day, counter at or above the limit.
Exhausted(row, now) ==
    row.last_reset_date = now /\ row.messages_sent_today >= row.daily_message_limit

\* The handler of request i is about to call check_rate_limit for a direct
\* message or a comment while the quota check fails for its tenant (as stored,
\* and as its session holds it).
CheckFails(i) ==
    /\ reqs[i].pc = "check" /\ reqs[i].ev.shape \in {"message", "comment"}
    /\ reqs[i].client \in DOMAIN clients
    /\ Exhausted(clients[reqs[i].client], today)
    /\ reqs[i].loaded /\ reqs[i].row = clients[reqs[i].client]

\* C16: when the quota check fails, handling a direct message or a comment
\* makes no adapter call, creates no Message record, leaves the counter (the
\* whole table) unchanged and returns to the loop without an exception; a
\* delivery all of whose sub-events were turned down so is answered
\* EVENT_RECEIVED/200 and its Webhook record is processed without error.
C16_QuotaFailureIsSilent ==
    [][\A i \in Reqs :
        /\ (CheckFails(i) /\ reqs'[i] # reqs[i]) =>
              /\ reqs'[i].pc = "entries" /\ reqs'[i].refused = reqs[i].refused + 1
              /\ UNCHANGED <<clients, messages, calls, webhooks>>
        /\ (reqs'[i].pc = "done" /\ reqs'[i].sub > 0
                /\ reqs'[i].refused = reqs'[i].sub) =>
              /\ reqs'[i].reply = "EVENT_RECEIVED" /\ reqs'[i].status = 200
              /\ \A w \in DOMAIN webhooks' :
                    webhooks'[w].req = i =>
                        (webhooks'[w].processed /\ webhooks'[w].error = None)
      ]_vars

\* C16 witness: a delivery whose first event was answered, reaching the limit,
\* and whose second was turned down by the quota check, acknowledged and
\* processed.
C16_Witness ==
    \E i \in Reqs :
        /\ Answered(i, "EVENT_RECEIVED", 200) /\ reqs[i].refused = 1 /\ reqs[i].sub = 2
        /\ \A c \in CallsOf(i) : c.sub = 1
        /\ \A m \in MessagesOf(i) : m.sub = 1
        /\ Exhausted(clients[reqs[i].client], today)
        /\ \E w \in WebhooksOf(i) : webhooks[w].processed /\ webhooks[w].error = None

\* C17: a story mention is answered only if the quota allows.  When the
\* tenant's quota is exhausted for the day, dispatching a story-mention event
\* does not lead to an adapter call; when it is answered, the text is the
\* fixed acknowledgement.
C17_StoryMentionRespectsQuota ==
    [][\A i \in Reqs :
          (reqs[i].pc = "entries" /\ reqs'[i].ev.shape = "story_mention") =>
              /\ (reqs[i].client \in DOMAIN clients
                    /\ Exhausted(clients[reqs[i].client], today))
                    => reqs'[i].pc # "send"
              /\ reqs'[i].pc = "send" => reqs'[i].response = StoryResponse
      ]_vars

----------------------------------------------------------------------------
(* The response policy for direct messages, applied to chosen inputs *)

MaxItems == 2       \* items of a custom_responses mapping

\* Keywords and texts of custom responses ("Oi" is stored with a capital),
\* and the mappings made of them, as the sequences of their items.
PolicyKeys == {<<"p", "r", "o", "m", "o">>, <<"O", "i">>, <<"a", "b", "c">>}
PolicyValues == {"X", "Y", ""}
Mappings ==
    {m \in UNION {[1..n -> PolicyKeys \X PolicyValues] : n \in 0..MaxItems} :
        \A j, k \in DOMAIN m : j # k => m[j][1] # m[k][1]}

\* Message texts: one per built-in category, some matching two, one matching
\* none.
PolicyTexts ==
    {<<"P", "r", "o", "m", "o", " ", "o", "i">>,
     <<"O", "i">>,
     <<"p", "r", "e", "c", "o", " ", "e", " ", "h", "o", "r", "a", "r", "i", "o">>,
     <<"h", "o", "r", "a", "r", "i", "o">>,
     <<"c", "a", "t", "a", "l", "o", "g", "o", " ", "e", " ", "c", "o", "n", "t", "a", "t", "o">>,
     <<"c", "o", "n", "t", "a", "t", "o">>,
     <<"a", "b", "c">>}

\* MessageHandler.process_message, from message_text to `response`, for a
\* tenant with these custom_responses
process_message_response(custom_responses, message_text) ==
    /\ last' = Call("process_message",
                    [custom_responses |-> custom_responses, message_text |-> message_text],
                    MessageResponse(custom_responses, message_text), NoClient)
    /\ UNCHANGED <<clients, api_keys, messages, webhooks, today, issued>>
    /\ AppIdle

NextPolicy ==
    \E custom_responses \in Mappings, message_text \in PolicyTexts :
        process_message_response(custom_responses, message_text)

SpecPolicy == InitManager /\ [][NextPolicy]_vars

----------------------------------------------------------------------------
(* Properties of the response policy (SpecPolicy) *)

\* The items of the mapping of `last` whose keyword, lowercased, occurs in the
\* lowercased message text.
CustomHits ==
    {k \in DOMAIN last.arg.custom_responses :
        In(lower(last.arg.custom_responses[k][1]), lower(last.arg.message_text))}

\* C18: custom-response precedence.  Whenever a key of the mapping occurs in
\* the message, the response is the value of the first such key in the
\* mapping's order, verbatim, whatever that value is (the empty one included).
C18_CustomResponseVerbatim ==
    last.op = "process_message" =>
        \A k \in CustomHits :
            (\A j \in CustomHits : k <= j) =>
                last.ret = last.arg.custom_responses[k][2]

\* The built-in categories in their order: keywords and text.
Categories ==
    <<[words |-> GreetingWords, text |-> GreetingText],
      [words |-> PriceWords, text |-> PriceText],
      [words |-> HoursWords, text |-> HoursText],
      [words |-> CatalogWords, text |-> CatalogText],
      [words |-> ContactWords, text |-> ContactText]>>

\* The categories one of whose keywords occurs in the lowercased text of `last`.
CategoryHits ==
    {k \in DOMAIN Categories :
        \E w \in DOMAIN Categories[k].words :
            In(Categories[k].words[w], lower(last.arg.message_text))}

\* C19: built-in fallback.  When no custom key matches, the response is the
\* text of the earliest category (greeting, pricing, hours, catalog, contact)
\* that has a keyword in the lowercased message, and the catch-all text when
\* none has; a text is always produced.
C19_BuiltInFallback ==
    (last.op = "process_message" /\ CustomHits = {}) =>
        /\ \A k \in CategoryHits :
              (\A j \in CategoryHits : k <= j) => last.ret = Categories[k].text
        /\ CategoryHits = {} => last.ret = CatchAllText
        /\ last.ret \notin {"", None}

\* C19 witness: no custom key matches a message that names both a price and
\* opening hours; the response is the pricing text.
C19_Witness ==
    /\ last.op = "process_message" /\ CustomHits = {}
    /\ last.arg.custom_responses # <<>>
    /\ {2, 3} \subseteq CategoryHits /\ 1 \notin CategoryHits
    /\ last.ret = PriceText

\* The comment handler of request i is about to decide (the quota check
\* returns in this step) for a tenant with auto-reply enabled and quota
\* available, as stored and as its session holds it.
CommentDecision(i) ==
    /\ reqs[i].ev.shape = "comment"
    /\ reqs[i].pc \in {"check", "compare"} /\ reqs'[i].pc \notin {"check", "compare"}
    /\ reqs[i].client \in DOMAIN clients
    /\ clients[reqs[i].client].auto_reply_enabled
    /\ clients[reqs[i].client].last_reset_date = today
    /\ clients[reqs[i].client].messages_sent_today
          < clients[reqs[i].client].daily_message_limit
    /\ reqs[i].loaded => reqs[i].row = clients[reqs[i].client]

\* C20: comment policy gate.  With auto-reply enabled and quota available, a
\* comment is answered if and only if one of the tenant's keywords is,
\* case-insensitively, a substring of its text: then with one reply on that
\* comment id, addressed to @username; otherwise the handler returns without
\* adapter call and without Message record.
C20_CommentGate ==
    [][\A i \in Reqs :
        /\ CommentDecision(i) =>
              IF \E k \in DOMAIN clients[reqs[i].client].keywords :
                    In(lower(clients[reqs[i].client].keywords[k]), lower(reqs[i].ev.text))
              THEN /\ reqs'[i].pc = "send"
                   /\ reqs'[i].response
                        = "@" \o Username \o CommentReply(lower(reqs[i].ev.text))
              ELSE /\ reqs'[i].pc = "entries"
                   /\ UNCHANGED <<calls, messages>>
        /\ (reqs[i].ev.shape = "comment" /\ reqs[i].pc = "send" /\ reqs'[i] # reqs[i]) =>
              \E c \in calls' \ calls :
                  /\ calls' = calls \cup {c}
                  /\ c.req = i /\ c.text = reqs[i].response
                  /\ c.endpoint = CommentId \o "/replies"
      ]_vars

\* C20 witness: the comment "Preço?" on the account with keyword "preço" was
\* answered and logged.
C20_Witness ==
    \E m \in messages :
        /\ m.message_type = "comment" /\ m.sent /\ m.recipient_id = Username
        /\ m.message_text = "@" \o Username \o " Oi! Enviamos os preços por DM!"
        /\ \E c \in calls : c.req = m.req /\ c.sub = m.sub /\ c.recipient = CommentId

\* The Message records of the attempt that made adapter call c.
RecordsOf(c) == {m \in messages : m.req = c.req /\ m.sub = c.sub}

\* C21: every send attempt produces exactly one Message record.  Once the
\* handler that made an adapter call has recorded it or returned, there is
\* exactly one Message record for that attempt, whether the call returned a
\* result, returned none or raised; its `sent` is true only if a result was
\* returned, and the error text is kept when the call raised.
C21_OneRecordPerAttempt ==
    \A c \in calls :
        (reqs[c.req].sub # c.sub \/ reqs[c.req].pc # "log_message") =>
            /\ Cardinality(RecordsOf(c)) = 1
            /\ \A m \in RecordsOf(c) :
                  /\ m.sent => c.outcome = "result"
                  /\ c.outcome = "raise" => m.error # None

\* The adapter calls made for sub-event s of request i.
AttemptsOf(i, s) == {c \in calls : c.req = i /\ c.sub = s}

\* Request i is committing the increment that belongs to a recorded send whose
\* adapter call returned a result.
CountsConfirmedSend(i) ==
    /\ reqs[i].pc = "increment_commit"
    /\ \E c \in AttemptsOf(i, reqs[i].sub) : c.outcome = "result"
    /\ \E m \in messages : m.req = i /\ m.sub = reqs[i].sub /\ m.sent

\* C22: "no result" is "not sent", and is never retried.  An adapter call that
\* returned no result is recorded by a Message with sent = false; no sub-event
\* has more than one adapter call; and messages_sent_today grows only in the
\* step that commits the increment of a recorded send whose adapter call
\* returned a result.
C22_NoResultNotSentNotRetried ==
    [][/\ \A i \in DOMAIN reqs, s \in 1..MaxSub :
             Cardinality(AttemptsOf(i, s)') <= 1
       /\ \A c \in calls' :
             (c.outcome = "none" /\ (reqs'[c.req].sub # c.sub \/ reqs'[c.req].pc # "log_message")) =>
                 \E m \in messages' : m.req = c.req /\ m.sub = c.sub /\ ~m.sent
       /\ \A c \in calls' :
             c.outcome = "none" => \A m \in messages' : (m.req = c.req /\ m.sub = c.sub) => ~m.sent
       /\ \A T \in DOMAIN clients :
             (T \in DOMAIN clients'
                /\ clients'[T].messages_sent_today > clients[T].messages_sent_today) =>
                 \E i \in DOMAIN reqs : reqs[i].client = T /\ CountsConfirmedSend(i)
      ]_vars

\* C22 witness: a delivery has been answered whose only send got no result:
\* it is recorded as not sent and the tenant's counter is still 0.
C22_Witness ==
    \E c \in calls :
        /\ c.outcome = "none" /\ reqs[c.req].pc = "done"
        /\ \A d \in calls : d = c
        /\ \E m \in messages :
              /\ m.req = c.req /\ m.sub = c.sub /\ ~m.sent
              /\ m.client_id \in DOMAIN clients
              /\ clients[m.client_id].messages_sent_today = 0

\* C23: echo suppression.  The step in which a delivery takes a messaging
\* event flagged as an echo leaves the request in the loop over the entries:
\* no quota check is started, no adapter call is made, no Message record is
\* written and no tenant row changes, whatever the tenant and the text.
C23_EchoSuppressed ==
    [][\A i \in DOMAIN reqs :
          reqs'[i].echoes > reqs[i].echoes =>
              /\ reqs'[i].pc = "entries"
              /\ reqs'[i].response = "" /\ reqs'[i].refused = reqs[i].refused
              /\ UNCHANGED <<clients, messages, calls, api_keys, webhooks>>
      ]_vars

\* C23 witness: a delivery to the account with the custom response for "promo"
\* and the keyword "preço", auto-reply on and quota left, held two echoes and
\* has been acknowledged with nothing sent or recorded.
C23_Witness ==
    \E i \in DOMAIN reqs :
        /\ Answered(i, "EVENT_RECEIVED", 200)
        /\ reqs[i].echoes = 2 /\ reqs[i].sub = 2
        /\ reqs[i].client = 1 /\ clients[1].auto_reply_enabled
        /\ clients[1].messages_sent_today < clients[1].daily_message_limit
        /\ calls = {} /\ messages = {}

----------------------------------------------------------------------------
(* Further properties of the tenant directory (SpecDirectory) *)

\* C24: verification tokens are unique.  In every state reached by any
\* sequence of register, update and delete operations no two tenants hold the
\* same verify_token, and a registration never gives the new tenant the token
\* of an existing one.
C24_TokensUnique ==
    /\ \A a, b \in DOMAIN clients :
          a # b => clients[a].verify_token # clients[b].verify_token
    /\ last.op = "create_client" =>
          \A n \in DOMAIN clients \ DOMAIN last.pre, c \in DOMAIN last.pre :
              last.pre[c].verify_token # clients[n].verify_token

----------------------------------------------------------------------------
(* The management API, webhook verification and the credential keys, served  *)
(* one request at a time (SpecAdmin)                                         *)

MaxRecords == 2     \* Message rows, and Webhook rows, written in one behaviour

\* JSON bodies of PUT /api/clients/<id>.  "nickname" is no attribute of Client.
AdminPatches ==
    {[active |-> FALSE],
     [auto_reply_enabled |-> FALSE, nickname |-> "x"],
     [email |-> "b@x.com"],
     [access_token |-> "tok_new"]}

\* X-API-Key headers: none, the keys that may be issued, and one never issued.
NoHeader == <<"none", 0>>
HeaderKeys == {NoHeader} \cup {<<"sk", token_urlsafe(n)>> : n \in 1..(MaxClients + 1)}

\* Query parameters of GET /webhook/<verify_token>.
Modes == {"subscribe", "unsubscribe", None}
Challenges == {"1158201444", "7"}

\* What `last` keeps of a request served (or a method called): the route, its
\* arguments, the status and the body (for a method: what it returned).
Served(op, arg, status, body) ==
    [op |-> op, arg |-> arg, status |-> status, body |-> body]

AdminIdle == UNCHANGED <<reqs, puts>>

\* (variant: the serialization that carries the credential)
to_dict_withToken(id, row) ==
    [id |-> id, email |-> row.email, access_token |-> row.access_token,
     instagram_account_id |-> row.instagram_account_id, keywords |-> row.keywords,
     auto_reply_enabled |-> row.auto_reply_enabled, active |-> row.active,
     daily_message_limit |-> row.daily_message_limit,
     messages_sent_today |-> row.messages_sent_today]

\* Client.to_dict, on the columns the model keeps (name and created_at are
\* not among them)
to_dict(id, row) ==
    [id |-> id, email |-> row.email,
     instagram_account_id |-> row.instagram_account_id, keywords |-> row.keywords,
     auto_reply_enabled |-> row.auto_reply_enabled, active |-> row.active,
     daily_message_limit |-> row.daily_message_limit,
     messages_sent_today |-> row.messages_sent_today]

\* The JSON bodies of the management API over the table t:
\* GET /api/clients (list_clients(active_only=False)),
ListBody(t) == [c \in DOMAIN t |-> to_dict(c, t[c])]
\* the 201 of POST /api/clients for the new client and its key,
CreatedBody(t, client_id, api_key) ==
    [client |-> to_dict(client_id, t[client_id]), api_key |-> api_key.key,
     verify_token |-> t[client_id].verify_token]
\* and the 200 of PUT /api/clients/<id>.
UpdatedBody(t, client_id) == [success |-> TRUE, client |-> to_dict(client_id, t[client_id])]

\* (variant: the email is looked up among the active clients only)
post_clients_activeOnly(p) ==
    /\ IF \E c \in DOMAIN clients : clients[c].email = p.email /\ clients[c].active
       THEN /\ last' = Served("POST /api/clients", p, 500, "ValueError")
            /\ UNCHANGED <<clients, api_keys, issued>>
       ELSE /\ issued < MaxClients
            /\ issued' = issued + 1
            /\ clients' = Inserted(clients, Client(p, token_urlsafe(issued + 1), today))
            /\ api_keys' = Inserted(api_keys, ApiKey(NextId(clients), issued + 1))
            /\ last' = Served("POST /api/clients", p, 201,
                    CreatedBody(Inserted(clients, Client(p, token_urlsafe(issued + 1), today)),
                                NextId(clients), ApiKey(NextId(clients), issued + 1)))
    /\ UNCHANGED <<messages, webhooks, today, calls>>
    /\ AdminIdle

\* POST /api/clients: create_client, then generate_api_key for the new client;
\* create_client's ValueError (the email exists) is answered 500.
post_clients(p) ==
    /\ IF get_client_by_email(clients, p.email) # {NoClient}
       THEN /\ last' = Served("POST /api/clients", p, 500, "ValueError")
            /\ UNCHANGED <<clients, api_keys, issued>>
       ELSE /\ issued < MaxClients
            /\ issued' = issued + 1
            /\ clients' = Inserted(clients, Client(p, token_urlsafe(issued + 1), today))
            /\ api_keys' = Inserted(api_keys, ApiKey(NextId(clients), issued + 1))
            /\ last' = Served("POST /api/clients", p, 201,
                    CreatedBody(Inserted(clients, Client(p, token_urlsafe(issued + 1), today)),
                                NextId(clients), ApiKey(NextId(clients), issued + 1)))
    /\ UNCHANGED <<messages, webhooks, today, calls>>
    /\ AdminIdle

\* PUT /api/clients/<id>: update_client(client_id, **data); None becomes 404,
\* an exception (the unique index on email) 500.
put_client(client_id, data) ==
    /\ IF get_client(clients, client_id) = NoClient
       THEN /\ last' = Served("PUT /api/clients", <<client_id, data>>, 404, "Client not found")
            /\ UNCHANGED clients
       ELSE IF EmailClash(Updated(clients, client_id, data, today))
       THEN /\ last' = Served("PUT /api/clients", <<client_id, data>>, 500, "IntegrityError")
            /\ UNCHANGED clients
       ELSE /\ clients' = Updated(clients, client_id, data, today)
            /\ last' = Served("PUT /api/clients", <<client_id, data>>, 200,
                              UpdatedBody(Updated(clients, client_id, data, today), client_id))
    /\ UNCHANGED <<api_keys, messages, webhooks, today, issued, calls>>
    /\ AdminIdle

\* GET /api/clients
get_clients ==
    /\ last' = Served("GET /api/clients", None, 200, ListBody(clients))
    /\ UNCHANGED <<clients, api_keys, messages, webhooks, today, issued, calls>>
    /\ AdminIdle

\* GET /api/clients/<id>
get_client_detail(client_id) ==
    /\ last' = IF get_client(clients, client_id) = NoClient
               THEN Served("GET /api/clients/<id>", client_id, 404, "Client not found")
               ELSE Served("GET /api/clients/<id>", client_id, 200,
                           to_dict(client_id, clients[client_id]))
    /\ UNCHANGED <<clients, api_keys, messages, webhooks, today, issued, calls>>
    /\ AdminIdle

\* DELETE /api/clients/<id>: deactivate_client(client_id); False becomes 404
delete_route(client_id) ==
    /\ IF get_client(clients, client_id) = NoClient
       THEN /\ last' = Served("DELETE /api/clients", client_id, 404, "Client not found")
            /\ UNCHANGED clients
       ELSE /\ clients' = Updated(clients, client_id, [active |-> FALSE], today)
            /\ last' = Served("DELETE /api/clients", client_id, 200, "Client deactivated")
    /\ UNCHANGED <<api_keys, messages, webhooks, today, issued, calls>>
    /\ AdminIdle

\* ClientManager.activate_client(client_id), called directly
admin_activate(client_id) ==
    /\ IF get_client(clients, client_id) = NoClient
       THEN /\ last' = Served("activate_client", client_id, 0, FALSE)
            /\ UNCHANGED clients
       ELSE /\ clients' = Updated(clients, client_id, [active |-> TRUE], today)
            /\ last' = Served("activate_client", client_id, 0, TRUE)
    /\ UNCHANGED <<api_keys, messages, webhooks, today, issued, calls>>
    /\ AdminIdle

\* (variant: hub.mode is not looked at)
webhook_verify_anyMode(verify_token, mode, token, challenge) ==
    /\ \E client \in get_client_by_verify_token(clients, verify_token) :
          last' = IF client = NoClient
                  THEN Served("GET /webhook", <<verify_token, mode, token, challenge>>,
                              403, "Forbidden")
                  ELSE IF token = verify_token
                  THEN Served("GET /webhook", <<verify_token, mode, token, challenge>>,
                              200, challenge)
                  ELSE Served("GET /webhook", <<verify_token, mode, token, challenge>>,
                              403, "Forbidden")
    /\ UNCHANGED <<clients, api_keys, messages, webhooks, today, issued, calls>>
    /\ AdminIdle

\* GET /webhook/<verify_token>?hub.mode=..&hub.verify_token=..&hub.challenge=..
webhook_verify(verify_token, mode, token, challenge) ==
    /\ \E client \in get_client_by_verify_token(clients, verify_token) :
          last' = IF client = NoClient
                  THEN Served("GET /webhook", <<verify_token, mode, token, challenge>>,
                              403, "Forbidden")
                  ELSE IF mode = "subscribe" /\ token = verify_token
                  THEN Served("GET /webhook", <<verify_token, mode, token, challenge>>,
                              200, challenge)
                  ELSE Served("GET /webhook", <<verify_token, mode, token, challenge>>,
                              403, "Forbidden")
    /\ UNCHANGED <<clients, api_keys, messages, webhooks, today, issued, calls>>
    /\ AdminIdle

\* The tables while delete_client's transaction has executed its first n
\* statements: the three bulk deletes, then the delete of the client.
Cascade(n, client_id) ==
    [api_keys |-> IF n >= 1 THEN Others(api_keys, client_id) ELSE api_keys,
     messages |-> IF n >= 2 THEN {m \in messages : m.client_id # client_id} ELSE messages,
     webhooks |-> IF n >= 3 THEN Others(webhooks, client_id) ELSE webhooks,
     clients |-> IF n >= 4 THEN [c \in DOMAIN clients \ {client_id} |-> clients[c]]
                 ELSE clients]

Statements == 4     \* statements of delete_client's transaction before the commit

\* (variant: every statement committed on its own)
hard_delete_autocommit(client_id, executed) ==
    /\ IF get_client(clients, client_id) = NoClient
       THEN /\ last' = Served("delete_client", client_id, 0, FALSE)
            /\ UNCHANGED <<clients, api_keys, messages, webhooks>>
       ELSE /\ clients' = Cascade(executed, client_id).clients
            /\ api_keys' = Cascade(executed, client_id).api_keys
            /\ messages' = Cascade(executed, client_id).messages
            /\ webhooks' = Cascade(executed, client_id).webhooks
            /\ last' = Served("delete_client", client_id, 0, executed = Statements)
    /\ UNCHANGED <<today, issued, calls>>
    /\ AdminIdle

\* ClientManager.delete_client(client_id).  `executed` statements succeed; when
\* that is not all of them (or the commit fails) the except clause rolls the
\* transaction back and False is returned.
hard_delete(client_id, executed) ==
    /\ IF get_client(clients, client_id) = NoClient
       THEN /\ last' = Served("delete_client", client_id, 0, FALSE)
            /\ UNCHANGED <<clients, api_keys, messages, webhooks>>
       ELSE IF executed < Statements
       THEN /\ last' = Served("delete_client", client_id, 0, FALSE)
            /\ UNCHANGED <<clients, api_keys, messages, webhooks>>
       ELSE /\ clients' = Cascade(Statements, client_id).clients
            /\ api_keys' = Cascade(Statements, client_id).api_keys
            /\ messages' = Cascade(Statements, client_id).messages
            /\ webhooks' = Cascade(Statements, client_id).webhooks
            /\ last' = Served("delete_client", client_id, 0, TRUE)
    /\ UNCHANGED <<today, issued, calls>>
    /\ AdminIdle

\* ClientManager.log_webhook('instagram_event', payload, client.id), as
\* webhook_receive calls it for a resolved client
admin_log_webhook(client_id) ==
    /\ client_id \in DOMAIN clients
    /\ Cardinality(DOMAIN webhooks) < MaxRecords
    /\ webhooks' = Inserted(webhooks, Webhook(client_id, 0))
    /\ last' = Served("log_webhook", client_id, 0, NextId(webhooks))
    /\ UNCHANGED <<clients, api_keys, messages, today, issued, calls>>
    /\ AdminIdle

\* (variant: the query without ApiKey.active == True)
ValidKeys_anyState(key) == {k \in DOMAIN api_keys : api_keys[k].key = key}

\* The ApiKey rows validate_api_key's query matches: key and active.
ValidKeys(key) == {k \in DOMAIN api_keys : api_keys[k].key = key /\ api_keys[k].active}

\* An operator revokes a credential key: the column ApiKey.active is cleared
\* in the database (no method of ClientManager writes it).
revoke(k) ==
    /\ k \in DOMAIN api_keys /\ api_keys[k].active
    /\ api_keys' = [api_keys EXCEPT ![k].active = FALSE]
    /\ last' = Served("revoke", k, 0, None)
    /\ UNCHANGED <<clients, messages, webhooks, today, issued, calls>>
    /\ AdminIdle

\* ClientManager.validate_api_key(key)
validate_api_key(key) ==
    /\ IF key = NoHeader \/ ValidKeys(key) = {}
       THEN /\ last' = Served("validate_api_key", key, 0, NoClient)
            /\ UNCHANGED api_keys
       ELSE \E k \in ValidKeys(key) :
            /\ api_keys' = [api_keys EXCEPT ![k].last_used_at = today]
            /\ last' = Served("validate_api_key", key, 0,
                              get_client(clients, api_keys[k].client_id))
    /\ UNCHANGED <<clients, messages, webhooks, today, issued, calls>>
    /\ AdminIdle

\* The handler's locals in POST /api/send-message, as the n-th send of client
\* client_id: MessageHandler(client, db, manager).api and the JSON body.
SendRequest(client_id, n, sent) ==
    [client |-> client_id, api |-> InstagramAPI(clients[client_id]),
     ev |-> [list |-> "messaging", shape |-> "message", text |-> <<>>],
     response |-> "Olá!", sub |-> n, sent |-> sent, error |-> None]

\* POST /api/send-message behind @require_api_key: 401 without a key or when
\* validate_api_key returns None; otherwise api.send_message and log_message
\* (which counts a send that returned a result); an exception is answered 500.
post_send_message(key, outcome) ==
    /\ IF key = NoHeader
       THEN /\ last' = Served("POST /api/send-message", key, 401, "API Key required")
            /\ UNCHANGED <<clients, api_keys, messages, calls>>
       ELSE IF ValidKeys(key) = {}
       THEN /\ last' = Served("POST /api/send-message", key, 401, "Invalid API Key")
            /\ UNCHANGED <<clients, api_keys, messages, calls>>
       ELSE \E k \in ValidKeys(key) :
            LET client_id == get_client(clients, api_keys[k].client_id)
                n == Cardinality(calls) + 1
            IN  /\ api_keys' = [api_keys EXCEPT ![k].last_used_at = today]
                /\ IF client_id = NoClient
                   THEN /\ last' = Served("POST /api/send-message", key, 401, "Invalid API Key")
                        /\ UNCHANGED <<clients, messages, calls>>
                   ELSE /\ Cardinality(calls) < MaxRecords
                        /\ calls' = calls \cup
                              {ApiCall(SendRequest(client_id, n, FALSE), 0, outcome)}
                        /\ IF outcome = "raise"
                           THEN /\ last' = Served("POST /api/send-message", key, 500, "error")
                                /\ UNCHANGED <<clients, messages>>
                           ELSE /\ messages' = messages \cup
                                      {Message(SendRequest(client_id, n, outcome = "result"), 0)}
                                /\ IF outcome = "result"
                                   THEN /\ clients[client_id].messages_sent_today < MaxCount
                                        /\ clients' = [clients EXCEPT ![client_id] = Incremented(@)]
                                   ELSE UNCHANGED clients
                                /\ last' = Served("POST /api/send-message", key, 200, outcome)
    /\ UNCHANGED <<webhooks, today, issued>>
    /\ AdminIdle

InitAdmin ==
    /\ InitDB
    /\ reqs = <<>>
    /\ last = Served("none", None, 0, None)

\* The management API and webhook verification, over the days.
NextAdmin ==
    \/ get_clients
    \/ \E c \in ClientIds : get_client_detail(c)
    \/ \E p \in AppProfiles : post_clients(p)
    \/ \E c \in ClientIds, data \in AdminPatches : put_client(c, data)
    \/ \E c \in ClientIds : delete_route(c)
    \/ \E c \in ClientIds : admin_activate(c)
    \/ \E t \in PathTokens, mode \in Modes, token \in PathTokens, challenge \in Challenges :
          webhook_verify(t, mode, token, challenge)
    \/ Tick

SpecAdmin == InitAdmin /\ [][NextAdmin]_vars

\* The credential keys and the records of the two deployed tenants.
InitKeys ==
    /\ Deployed
    /\ reqs = <<>>

NextKeys ==
    \/ \E c \in ClientIds : delete_route(c)
    \/ \E c \in ClientIds, executed \in 0..Statements : hard_delete(c, executed)
    \/ \E c \in ClientIds : admin_log_webhook(c)
    \/ \E k \in 1..MaxClients : revoke(k)
    \/ \E key \in HeaderKeys : validate_api_key(key)
    \/ \E key \in HeaderKeys, outcome \in {"result", "none", "raise"} :
          post_send_message(key, outcome)

SpecKeys == InitKeys /\ [][NextKeys]_vars

----------------------------------------------------------------------------
(* Properties of the management API (SpecAdmin) *)

\* The step is the serving of a request on route op.
Serves(op) == last'.op = op /\ today' = today

\* C25: a registration with the contact email of an existing tenant, active
\* or not, fails with the duplicate error and leaves tenants, credential keys
\* and every other record as they were; one with a fresh email creates
\* exactly one tenant, which is active, has auto-reply enabled and
\* messages_sent_today = 0, and changes no other tenant.
C25_RegisterDuplicateOrFresh ==
    [][Serves("POST /api/clients") =>
          IF \E c \in DOMAIN clients : clients[c].email = last'.arg.email
          THEN /\ last'.status = 500 /\ last'.body = "ValueError"
               /\ UNCHANGED <<clients, api_keys, messages, webhooks, calls>>
          ELSE /\ last'.status = 201
               /\ Cardinality(DOMAIN clients' \ DOMAIN clients) = 1
               /\ \A c \in DOMAIN clients : c \in DOMAIN clients' /\ clients'[c] = clients[c]
               /\ \A n \in DOMAIN clients' \ DOMAIN clients :
                     /\ clients'[n].email = last'.arg.email
                     /\ clients'[n].active /\ clients'[n].auto_reply_enabled
                     /\ clients'[n].messages_sent_today = 0
      ]_vars

\* C25 witness: a registration was refused because a deactivated tenant holds
\* the email.
C25_Witness ==
    /\ last.op = "POST /api/clients" /\ last.status = 500
    /\ \E c \in DOMAIN clients : clients[c].email = last.arg.email /\ ~clients[c].active
    /\ api_keys # <<>>

\* C26: webhook verification.  GET /webhook/<token> answers the challenge
\* with status 200 if and only if the path token is stored by a tenant (active
\* or not), hub.verify_token equals the path token and hub.mode is
\* "subscribe"; in every other case it answers 403; it never writes a record.
C26_VerificationHandshake ==
    [][Serves("GET /webhook") =>
          LET verify_token == last'.arg[1]
              mode == last'.arg[2]
              token == last'.arg[3]
              challenge == last'.arg[4]
              granted == /\ \E c \in DOMAIN clients : clients[c].verify_token = verify_token
                         /\ token = verify_token
                         /\ mode = "subscribe"
          IN  /\ granted => (last'.status = 200 /\ last'.body = challenge)
              /\ ~granted => (last'.status = 403 /\ last'.body = "Forbidden")
              /\ UNCHANGED <<clients, api_keys, messages, webhooks, calls, issued>>
      ]_vars

\* C26 witness: the handshake succeeded on the token of a deactivated tenant.
C26_Witness ==
    /\ last.op = "GET /webhook" /\ last.status = 200 /\ last.body = last.arg[4]
    /\ \E c \in DOMAIN clients :
          clients[c].verify_token = last.arg[1] /\ ~clients[c].active

----------------------------------------------------------------------------
(* Deactivation (SpecDirectory) *)

\* C27: deactivate is idempotent.  deactivate_client on an existing tenant,
\* active or already inactive, succeeds and leaves the table as it was except
\* for that tenant's active = false and updated_at; activate_client likewise
\* leaves active = true.
C27_DeactivateIdempotent ==
    /\ (last.op = "deactivate_client" /\ last.client_id \in DOMAIN last.pre) =>
          /\ last.ret = last.client_id
          /\ clients = [last.pre EXCEPT ![last.client_id].active = FALSE,
                                        ![last.client_id].updated_at = last.day]
    /\ (last.op = "activate_client" /\ last.client_id \in DOMAIN last.pre) =>
          /\ last.ret = last.client_id
          /\ clients = [last.pre EXCEPT ![last.client_id].active = TRUE,
                                        ![last.client_id].updated_at = last.day]

\* C27 witness: deactivate_client was called on a tenant that was inactive
\* already, and succeeded.
C27_Witness ==
    /\ last.op = "deactivate_client" /\ last.client_id \in DOMAIN last.pre
    /\ ~last.pre[last.client_id].active
    /\ last.ret = last.client_id /\ ~clients[last.client_id].active

----------------------------------------------------------------------------
(* Properties of hard delete and of the credential keys (SpecKeys) *)

\* The rows of an id-indexed table, and of the messages, owned by client T.
RowsOf(table, T) == {i \in DOMAIN table : table[i].client_id = T}

\* C28: hard delete is all-or-nothing.  When delete_client(T) returns true, T
\* and every ApiKey, Message and Webhook row with client_id = T are gone and
\* every row of the other tenants is as it was; when it returns false (a
\* statement of the cascade failed, or T does not exist) no table has changed.
C28_HardDeleteAllOrNothing ==
    [][last'.op = "delete_client" =>
          LET T == last'.arg IN
          /\ T \notin DOMAIN clients => last'.body = FALSE
          /\ last'.body = TRUE =>
                /\ T \in DOMAIN clients /\ T \notin DOMAIN clients'
                /\ RowsOf(api_keys', T) = {} /\ RowsOf(webhooks', T) = {}
                /\ {m \in messages' : m.client_id = T} = {}
                /\ \A c \in DOMAIN clients \ {T} : c \in DOMAIN clients' /\ clients'[c] = clients[c]
                /\ \A k \in DOMAIN api_keys \ RowsOf(api_keys, T) :
                      k \in DOMAIN api_keys' /\ api_keys'[k] = api_keys[k]
                /\ \A w \in DOMAIN webhooks \ RowsOf(webhooks, T) :
                      w \in DOMAIN webhooks' /\ webhooks'[w] = webhooks[w]
                /\ \A m \in messages : m.client_id # T => m \in messages'
          /\ last'.body = FALSE => UNCHANGED <<clients, api_keys, messages, webhooks>>
      ]_vars

\* C28 witness: tenant 1, which had a key, a message and a webhook (the rows
\* numbered 1), has been deleted; the key, the message and the webhook of
\* tenant 2 are still there.
C28_Witness ==
    /\ last.op = "delete_client" /\ last.arg = 1 /\ last.body = TRUE
    /\ DOMAIN clients = {2} /\ DOMAIN api_keys = {2} /\ DOMAIN webhooks = {2}
    /\ webhooks[2].client_id = 2
    /\ \E m \in messages : m.client_id = 2 /\ m.sub = 2
    /\ \A m \in messages : m.client_id = 2
    /\ \E c \in calls : c.sub = 1 /\ c.outcome = "result" /\ c.access_token = "tok_a@x.com"

----------------------------------------------------------------------------
(* Updates through the management API (SpecAdmin) *)

\* C29: an update, deactivate or activate of a tenant id that does not exist
\* changes nothing and is answered not-found (404; False for activate); an
\* update of an existing tenant changes, in that tenant's row only, nothing
\* but the tenant fields named in the patch and updated_at, and when it
\* succeeds the named tenant fields have the patch's values and updated_at is
\* stamped; names that are no tenant attribute are ignored.
C29_UpdateMissingOrMerge ==
    [][/\ Serves("PUT /api/clients") =>
             LET T == last'.arg[1]
                 data == last'.arg[2]
             IN  IF T \notin DOMAIN clients
                 THEN last'.status = 404 /\ UNCHANGED <<clients, api_keys, messages, webhooks>>
                 ELSE /\ DOMAIN clients' = DOMAIN clients
                      /\ DOMAIN clients'[T] = DOMAIN clients[T]
                      /\ \A c \in DOMAIN clients \ {T} : clients'[c] = clients[c]
                      /\ \A f \in DOMAIN clients[T] :
                            clients'[T][f] # clients[T][f] =>
                                f = "updated_at" \/ f \in DOMAIN data
                      /\ last'.status = 200 =>
                            /\ clients'[T].updated_at = today
                            /\ \A f \in DOMAIN data \cap DOMAIN clients[T] :
                                  clients'[T][f] = data[f]
                      /\ last'.status # 200 => UNCHANGED clients
                      /\ UNCHANGED <<api_keys, messages, webhooks>>
       /\ Serves("DELETE /api/clients") =>
             IF last'.arg \notin DOMAIN clients
             THEN last'.status = 404 /\ UNCHANGED <<clients, api_keys, messages, webhooks>>
             ELSE last'.status = 200
       /\ Serves("activate_client") =>
             IF last'.arg \notin DOMAIN clients
             THEN last'.body = FALSE /\ UNCHANGED <<clients, api_keys, messages, webhooks>>
             ELSE last'.body = TRUE
      ]_vars

\* C29 witness: on day 2 a PUT with auto_reply_enabled and the unknown name
\* "nickname" succeeded on a tenant registered on day 1.
C29_Witness ==
    /\ last.op = "PUT /api/clients" /\ last.status = 200
    /\ "nickname" \in DOMAIN last.arg[2]
    /\ last.arg[1] \in DOMAIN clients
    /\ ~clients[last.arg[1]].auto_reply_enabled
    /\ clients[last.arg[1]].updated_at = 2
    /\ clients[last.arg[1]].last_reset_date = 1
    /\ "nickname" \notin DOMAIN clients[last.arg[1]]

\* The credential keys with value key that are active.
ActiveKeys(key) == {k \in DOMAIN api_keys : api_keys[k].key = key /\ api_keys[k].active}

\* C30: credential resolution.  validate_api_key(k) returns a tenant if and
\* only if an active credential key with value k exists, and then that key's
\* owner, changing nothing but that key's last_used_at; a missing, unknown or
\* deactivated key resolves to nothing and changes no state, and the send API
\* answers it 401 without adapter call or Message record.
C30_CredentialResolution ==
    [][/\ last'.op = "validate_api_key" =>
             IF ActiveKeys(last'.arg) = {}
             THEN /\ last'.body = NoClient
                  /\ UNCHANGED <<clients, api_keys, messages, webhooks, calls>>
             ELSE \E k \in ActiveKeys(last'.arg) :
                  /\ last'.body = api_keys[k].client_id
                  /\ last'.body \in DOMAIN clients
                  /\ api_keys' = [api_keys EXCEPT ![k].last_used_at = today]
                  /\ UNCHANGED <<clients, messages, webhooks, calls>>
       /\ last'.op = "POST /api/send-message" =>
             IF ActiveKeys(last'.arg) = {}
             THEN /\ last'.status = 401
                  /\ UNCHANGED <<clients, api_keys, messages, webhooks, calls>>
             ELSE last'.status # 401
      ]_vars

\* C30 witness: the send API refused the key of tenant 1 after it was revoked,
\* while that key had been used before and tenant 2's key was still active.
C30_Witness ==
    /\ last.op = "POST /api/send-message" /\ last.status = 401
    /\ \E k \in DOMAIN api_keys :
          /\ api_keys[k].key = last.arg /\ ~api_keys[k].active
          /\ api_keys[k].last_used_at = today
          /\ api_keys[k].client_id \in DOMAIN clients
    /\ \E k \in DOMAIN api_keys : api_keys[k].active

----------------------------------------------------------------------------
(* What the management API shows of a tenant (SpecAdmin) *)

\* The table with every outbound credential blanked: two tables that differ
\* only in access_token values have the same Masked table.
Masked(t) == [c \in DOMAIN t |-> [t[c] EXCEPT !.access_token = ""]]

\* The serialized tenant d shows a credential stored in table t.
Shows(d, t) ==
    \/ "access_token" \in DOMAIN d
    \/ \E c \in DOMAIN t : d.email = t[c].access_token \/ d.instagram_account_id = t[c].access_token

\* C31: tenant serialization does not depend on the outbound credential.
\* The list, detail, create and update responses that serialize tenants are
\* what they would be with every access_token blanked, and no access_token
\* (name or value) occurs in them.
C31_SerializationHidesCredential ==
    [][/\ Serves("GET /api/clients") =>
             /\ last'.body = ListBody(Masked(clients))
             /\ \A c \in DOMAIN last'.body : ~Shows(last'.body[c], clients)
       /\ (Serves("GET /api/clients/<id>") /\ last'.status = 200) =>
             /\ last'.body = to_dict(last'.arg, Masked(clients)[last'.arg])
             /\ ~Shows(last'.body, clients)
       /\ (Serves("POST /api/clients") /\ last'.status = 201) =>
             /\ \E n \in DOMAIN clients' : last'.body.client = to_dict(n, Masked(clients')[n])
             /\ ~Shows(last'.body.client, clients')
             /\ DOMAIN last'.body = {"client", "api_key", "verify_token"}
       /\ (Serves("PUT /api/clients") /\ last'.status = 200) =>
             /\ last'.body.client = to_dict(last'.arg[1], Masked(clients')[last'.arg[1]])
             /\ ~Shows(last'.body.client, clients) /\ ~Shows(last'.body.client, clients')
      ]_vars

\* C31 witness: a PUT replaced a tenant's access_token and was answered with
\* the tenant's serialization.
C31_Witness ==
    /\ last.op = "PUT /api/clients" /\ last.status = 200
    /\ "access_token" \in DOMAIN last.arg[2]
    /\ clients[last.arg[1]].access_token = "tok_new"
    /\ last.body.client.email = clients[last.arg[1]].email
    /\ Cardinality(DOMAIN clients) = 2

----------------------------------------------------------------------------
(* Further properties of the webhook endpoint (Spec) *)

\* C32: resolution order.  The auto-reply test comes before the quota check:
\* while the handler of a direct message or comment runs for a tenant whose
\* auto_reply_enabled is false (when the delivery arrived and now), the
\* tenant's messages_sent_today and last_reset_date stay as they are, also
\* when the event is the first one of a new day.
C32_MutedTenantQuotaUntouched ==
    [][\A i \in Reqs :
          (Muted(i) /\ reqs[i].pc \in {"check", "compare"} /\ reqs'[i] # reqs[i]) =>
              /\ reqs[i].client \in DOMAIN clients'
              /\ clients'[reqs[i].client].messages_sent_today
                    = clients[reqs[i].client].messages_sent_today
              /\ clients'[reqs[i].client].last_reset_date
                    = clients[reqs[i].client].last_reset_date
      ]_vars

----------------------------------------------------------------------------
(* Further properties of racing deliveries (SpecRace) *)

\* No delivery is between recording a send and committing its increment.
Settled == \A i \in DOMAIN reqs : reqs[i].pc \notin {"increment", "increment_commit"}

\* C33: counter accounting under concurrency.  On the day of the tenant's
\* last reset, once every recorded send has committed its increment,
\* messages_sent_today equals the number of Message records with sent = true
\* written for the tenant since that reset: no concurrent increment is lost.
\* (Stated for day 1, the day the tenants were registered on: every Message
\* record is then one written since the last reset.)
C33_CounterCountsSentMessages ==
    (today = 1 /\ Settled) =>
        \A T \in DOMAIN clients :
            clients[T].last_reset_date = 1 =>
                clients[T].messages_sent_today
                    = Cardinality({m \in messages : m.client_id = T /\ m.sent})

----------------------------------------------------------------------------
(* Further properties of the credential keys and the send API (SpecKeys) *)

\* C34: an inactive tenant never sends.  While a tenant's active flag is
\* false, no step makes an adapter call with that tenant's credentials or
\* creates a Message record for it, through any entry point.
C34_InactiveTenantNeverSends ==
    [][\A T \in DOMAIN clients :
          ~clients[T].active =>
              /\ \A c \in calls' \ calls : c.access_token # clients[T].access_token
              /\ \A m \in messages' \ messages : m.client_id # T
      ]_vars

----------------------------------------------------------------------------
(* Hard delete while a delivery is in progress *)

\* One POST /webhook/<verify_token> delivery, handled step by step, and
\* delete_client calls that commit between any two of its steps.
NextOrphan ==
    \/ \E c \in ClientIds, executed \in 0..Statements : hard_delete(c, executed)
    \/ \E i \in Reqs : webhook_receive(i)
    \/ \E i \in Reqs : log_webhook(i)
    \/ \E i \in Reqs : entry_of_null(i)
    \/ \E i \in Reqs, ev \in SubEvents : process_messaging_event(i, ev)
    \/ \E i \in Reqs, ev \in SubEvents : process_change_event(i, ev)
    \/ \E i \in Reqs : handler_check_rate_limit(i)
    \/ \E i \in Reqs : handler_compare(i)
    \/ \E i \in Reqs, outcome \in {"result", "none", "raise"} : api_call(i, outcome)
    \/ \E i \in Reqs : handler_log_message(i)
    \/ \E i \in Reqs : handler_increment_read(i)
    \/ \E i \in Reqs : handler_increment_commit(i)
    \/ \E i \in Reqs : mark_webhook_processed(i)
    \/ Tick

SpecOrphan == Init /\ [][NextOrphan]_vars

\* The tenants delete_client has removed (ids are handed out once).
Deleted == (1..issued) \ DOMAIN clients

\* C35: no orphan records after hard delete.  Once delete_client(T) has
\* committed, no ApiKey, Message or Webhook record with client_id = T exists
\* in any later state, deliveries in progress included.
C35_NoOrphanRecords ==
    \A T \in Deleted :
        /\ \A k \in DOMAIN api_keys : api_keys[k].client_id # T
        /\ \A m \in messages : m.client_id # T
        /\ \A w \in DOMAIN webhooks : webhooks[w].client_id # T

----------------------------------------------------------------------------
(* Registrations and updates in concurrent sessions *)

MaxOps == 2
Ops == 1..MaxOps

\* Keyword arguments of the concurrent update_client calls.
EmailPatches == {[email |-> e] : e \in Emails \cup {"c@x.com"}} \cup {[active |-> FALSE]}

\* A session running create_client or update_client.
\*   pc: "idle", "add" (create_client past its email query), "set"
\*       (update_client past get_client and setattr), "done"
\*   row: the Client object as the session loaded it
\*   ret: the id of the Client returned (NoClient: None, or nothing yet)
\*   raised: the exception the call raised ("": none)
NoProfile == [email |-> ""]
NoPatch == [none |-> TRUE]
NoOp == [kind |-> "none", pc |-> "idle", p |-> NoProfile, client |-> NoClient,
         patch |-> NoPatch, row |-> NoRow, ret |-> NoClient, raised |-> ""]

Failed(o) == o.pc = "done" /\ o.raised # ""

\* create_client up to db.add: the query on Client.email; ValueError is raised
\* (and the except clause rolls back) when a row is found.
register_query(i, p) ==
    /\ reqs[i].pc \in {"idle", "done"}
    /\ reqs' = [reqs EXCEPT ![i] =
          IF get_client_by_email(clients, p.email) # {NoClient}
          THEN [NoOp EXCEPT !.kind = "create_client", !.p = p, !.pc = "done",
                            !.raised = "ValueError"]
          ELSE [NoOp EXCEPT !.kind = "create_client", !.p = p, !.pc = "add"]]
    /\ UNCHANGED <<clients, api_keys, messages, webhooks, today, issued, calls, puts, last>>

\* (variant: Client.email without unique=True)
register_commit_noIndex(i) ==
    /\ reqs[i].pc = "add"
    /\ issued < MaxClients + 1
    /\ issued' = issued + 1
    /\ clients' = Inserted(clients, Client(reqs[i].p, token_urlsafe(issued + 1), today))
    /\ reqs' = [reqs EXCEPT ![i].pc = "done", ![i].ret = NextId(clients)]
    /\ UNCHANGED <<api_keys, messages, webhooks, today, calls, puts, last>>

\* create_client from db.add to the end: the INSERT is committed, or it fails
\* on the unique index of Client.email (IntegrityError: rollback, raise).
register_commit(i) ==
    /\ reqs[i].pc = "add"
    /\ IF EmailClash(Inserted(clients, Client(reqs[i].p, token_urlsafe(issued + 1), today)))
       THEN /\ reqs' = [reqs EXCEPT ![i].pc = "done", ![i].raised = "IntegrityError"]
            /\ UNCHANGED <<clients, issued>>
       ELSE /\ issued < MaxClients
            /\ issued' = issued + 1
            /\ clients' = Inserted(clients, Client(reqs[i].p, token_urlsafe(issued + 1), today))
            /\ reqs' = [reqs EXCEPT ![i].pc = "done", ![i].ret = NextId(clients)]
    /\ UNCHANGED <<api_keys, messages, webhooks, today, calls, puts, last>>

\* update_client up to db.commit: get_client loads the row (None is returned
\* when there is none) and setattr changes the object.
update_get(i, client_id, patch) ==
    /\ reqs[i].pc \in {"idle", "done"}
    /\ reqs' = [reqs EXCEPT ![i] =
          IF get_client(clients, client_id) = NoClient
          THEN [NoOp EXCEPT !.kind = "update_client", !.client = client_id,
                            !.patch = patch, !.pc = "done"]
          ELSE [NoOp EXCEPT !.kind = "update_client", !.client = client_id,
                            !.patch = patch, !.pc = "set", !.row = clients[client_id]]]
    /\ UNCHANGED <<clients, api_keys, messages, webhooks, today, issued, calls, puts, last>>

\* The table after the UPDATE of update_client's commit: the columns the
\* session changed, written over the row as it is now.
Committed(t, o) == [t EXCEPT ![o.client] = Flush(@, o.row, Merge(o.row, o.patch, today))]

\* update_client's db.commit(): the UPDATE is committed, or it fails on the
\* unique index of Client.email (IntegrityError: rollback, raise).
update_commit(i) ==
    /\ reqs[i].pc = "set"
    /\ IF EmailClash(Committed(clients, reqs[i]))
       THEN /\ reqs' = [reqs EXCEPT ![i].pc = "done", ![i].raised = "IntegrityError"]
            /\ UNCHANGED clients
       ELSE /\ clients' = Committed(clients, reqs[i])
            /\ reqs' = [reqs EXCEPT ![i].pc = "done", ![i].ret = reqs[i].client]
    /\ UNCHANGED <<api_keys, messages, webhooks, today, issued, calls, puts, last>>

InitEmails ==
    /\ InitDB
    /\ reqs = [i \in Ops |-> NoOp]
    /\ last = Served("none", None, 0, None)

NextEmails ==
    \/ \E i \in Ops, p \in AppProfiles : register_query(i, p)
    \/ \E i \in Ops : register_commit(i)
    \/ \E i \in Ops, c \in ClientIds, patch \in EmailPatches : update_get(i, c, patch)
    \/ \E i \in Ops : update_commit(i)

SpecEmails == InitEmails /\ [][NextEmails]_vars

\* C36: contact emails stay unique.  Under every interleaving of register and
\* update operations no two tenants have the same email, and an operation
\* that fails leaves the tables as they were.
C36_EmailsStayUnique ==
    [][/\ ~EmailClash(clients) /\ ~EmailClash(clients')
       /\ \A i \in Ops :
             (Failed(reqs'[i]) /\ reqs'[i] # reqs[i]) =>
                 UNCHANGED <<clients, api_keys, messages, webhooks, issued>>
      ]_vars

\* Two registrations with one email ran concurrently and the second to commit
\* failed on the index; or an update to another tenant's email failed.
C36_Witness ==
    /\ \E i \in Ops : reqs[i].kind = "create_client" /\ reqs[i].pc = "done"
                      /\ reqs[i].raised = "IntegrityError"
    /\ \E i \in Ops : reqs[i].kind = "create_client" /\ reqs[i].pc = "done"
                      /\ reqs[i].ret \in DOMAIN clients

====
